---- MODULE Spec2Model ----
(***************************************************************************)
(* Model of the artifact/rule graph and the incremental scheduler of gear  *)
(* (src/src/artifact.rs, src/src/rule.rs, src/src/processor.rs).           *)
(*                                                                         *)
(* The build graph is the one a small build script creates:                *)
(*                                                                         *)
(*                                 +--> app     --g_build--> build        *)
(*   a.c --cc_a--> a.o --link------+                                       *)
(*                                 +--> app.map --g_map----> map           *)
(*                                                                         *)
(*   (no inputs) --g_gen--> gen, gen2       {build, map} --g_all--> all    *)
(*                                                                         *)
(* a.c is an Actual source, a.o, app and app.map are Actual products (the  *)
(* link rule is attached to the binary and to its map file), build, map,   *)
(* gen and all are phony goals; g_gen is a callback rule without inputs    *)
(* and with the two outputs gen and gen2.  bare is a phony goal that never *)
(* got a rule, a.h is an Actual source the script interned as an input but *)
(* gave to no rule.  The script also made a goal of the name a.o, the name *)
(* of the object file: its rule g_obj takes a.o as input.  Timestamps are  *)
(* natural numbers, 0 is the epoch.                                        *)
(***************************************************************************)
EXTENDS Naturals, Sequences, FiniteSets, TLC

\* Largest file modification time found on disk when the rules are loaded.
MaxTime == 1

\* Largest value of the `jobs` argument.
MaxJobs == 2

\* Largest length of the goal list.
MaxGoals == 2

\* Largest number of calls of ArtifactStore::process in one run.
MaxBuilds == 2

\* Largest number of entries of a diagnostics bundle.
MaxDiags == 1

\* Largest number of artifacts alive at a time while the script is loaded.
MaxObjs == 2

\* Largest number of rules alive at a time while the script is loaded.
MaxRules == 2

\* Largest number of batches of touched paths the watcher reports.
MaxBatches == 2

\* Largest number of configurations derived from the detected one.
MaxConfigs == 2

\* Largest major, minor and patch number of a library version.
MaxVersion == 3

\* Largest number of variables and sub-scopes a script creates.
MaxCreated == 3

None == "none"

Rules == {"cc_a", "link", "g_build", "g_map", "g_gen", "g_all", "g_obj"}

Sources == {"a.c", "a.h"}

Products == {"a.o", "app", "app.map"}

\* The phony table; "goal a.o" is the goal of the name a.o, the name the
\* object file has in the Actual table.
PhonyStore == {"build", "map", "gen", "gen2", "all", "bare", "goal a.o"}

ActualStore == Sources \cup Products

Arts == ActualStore \cup PhonyStore

\* ArtifactType of an artifact: fixed by the usage it was created with.
type_(a) == IF a \in Sources THEN "Source" ELSE "Product"

\* ArtifactKind of an artifact: the store it is interned in.
kind(a) == IF a \in PhonyStore THEN "Phony" ELSE "Actual"

\* Artifact::name: the key of the artifact in its table.
artifact_name(a) == IF a = "goal a.o" THEN "a.o" ELSE a

is_source(a) == type_(a) = "Source"

is_phony(a) == kind(a) = "Phony"

\* RuleApi::inputs: the input set of a rule, in insertion order.
RuleInputs(r) ==
    CASE r = "cc_a" -> <<"a.c">>
      [] r = "link" -> <<"a.o">>
      [] r = "g_build" -> <<"app">>
      [] r = "g_map" -> <<"app.map">>
      [] r = "g_gen" -> <<>>
      [] r = "g_all" -> <<"build", "map">>
      [] r = "g_obj" -> <<"a.o">>

\* RuleApi::outputs: the outputs a rule reports.  The link rule keeps the
\* binary and the map file but reports the binary alone.
RuleOutputs(r) ==
    CASE r = "cc_a" -> <<"a.o">>
      [] r = "link" -> <<"app">>
      [] r = "g_build" -> <<"build">>
      [] r = "g_map" -> <<"map">>
      [] r = "g_gen" -> <<"gen", "gen2">>
      [] r = "g_all" -> <<"all">>
      [] r = "g_obj" -> <<"goal a.o">>

\* The RuleApi implementation behind a rule: the compile and link rules run
\* an external tool, the goals are script-callback rules.
RuleKind(r) ==
    CASE r = "cc_a" -> "Compile"
      [] r = "link" -> "Link"
      [] OTHER -> "Js"

Range(s) == {s[i] : i \in 1..Len(s)}

\* The artifacts the constructor of a rule called set_rule on: the link
\* constructor on the binary and on the map file, every other one on the
\* outputs the rule reports.
RuleProducts(r) == IF r = "link" THEN <<"app", "app.map">> ELSE RuleOutputs(r)

\* The rule every output artifact was given by the rule's constructor
\* (NoRule::new_raw, JsRule::new_raw call set_rule on each output).
RuleOfArtifact ==
    [a \in Arts |->
        IF \E r \in Rules : a \in Range(RuleProducts(r))
        THEN CHOOSE r \in Rules : a \in Range(RuleProducts(r))
        ELSE None]

\* Artifact::rule: the rule that was attached to the artifact, if any.
rule(a) == RuleOfArtifact[a]

has_rule(a) == rule(a) # None

InputsOfArtifact ==
    [a \in Arts |-> IF has_rule(a) THEN RuleInputs(rule(a)) ELSE <<>>]

\* Artifact::inputs: the inputs of the attached rule, or nothing.
inputs(a) == InputsOfArtifact[a]

\* Hash for the Internal of an artifact: the name alone is hashed.
hash_artifact(a) == artifact_name(a)

\* Rule::id: the hash of the outputs the rule reports, in their order.
id(r) == [i \in 1..Len(RuleOutputs(r)) |-> hash_artifact(RuleOutputs(r)[i])]

VARIABLES
    time,       \* Artifact.time of every artifact
    state,      \* Rule.state of every rule
    goals,      \* the goal names the program was started with
    jobs,       \* the jobs argument
    dry_run,    \* the dry_run argument
    queue,      \* process_artifacts: the work queue
    unique,     \* process_artifacts: ids of the rules scheduled by the walk
    pending,    \* process_artifacts: pending_tasks, rules being invoked
    phase,      \* "idle": no build is going on; "running": awaiting select_all
    result,     \* what the last call of process returned: "none", "ok", "err"
    now,        \* the last value Time::now() returned
    builds,     \* number of calls of process so far
    invoked,    \* per rule, the number of invocations started in this build
    finished,   \* rules whose invocation ended in this build
    failed,     \* rules whose invocation ended with an error in this build
    prev,       \* summary of the build before this one
    events,     \* the RuleStateChange events emitted in this build, in order
    diagnostics, \* Rule.diagnostics of every rule
    badexit,    \* rules whose tool exited with a failure status in this build
    heap,       \* the Internal of every artifact allocated while loading
    actual,     \* ArtifactStore.actual: the entries that still upgrade
    phony,      \* ArtifactStore.phony: the entries that still upgrade
    held,       \* the strong handles callers hold: <<artifact, usage>>
    scope_goals, \* Scope.goals: the goal artifacts the scope holds
    rule_inputs, \* per rule object, the artifacts its input set holds
    rule_outputs, \* per rule object, the living artifacts of its weak output set
    rule_held,  \* the rule objects a caller holds a handle of
    last,       \* what the last call on the store returned
    watch,      \* State::watch_inputs: the batch of touched paths in work
    cfg,        \* the compiler configuration derived last, and its parent
    named,      \* the last call of FileKind::file_name and what it returned
    scope,      \* the root Scope: its variables and sub-scopes, the variable store
    files       \* the files on disk, their Actual artifacts and the compile rule

\* The variables of the scheduler, and those of the store while the build
\* script is loaded.  The scheduler specifications start once the script has
\* run: they read the graph from RuleInputs and RuleOutputs and leave the
\* store variables alone.
storevars == <<heap, actual, phony, held, scope_goals, rule_inputs,
               rule_outputs, rule_held, last>>

\* The variables of the compiler driver and of the scope.
toolvars == <<cfg, named, scope, files>>

vars == <<time, state, goals, jobs, dry_run, queue, unique, pending, phase,
          result, now, builds, invoked, finished, failed, prev, events,
          diagnostics, badexit, storevars, watch, toolvars>>

(***************************************************************************)
(* Artifact::outdated                                                      *)
(***************************************************************************)
RECURSIVE outdated(_, _)
outdated(a, t) ==
    IF is_source(a)
    THEN FALSE
    ELSE \E i \in 1..Len(inputs(a)) :
            outdated(inputs(a)[i], t) \/ t[inputs(a)[i]] > t[a]

\* Readiness that never looks at the inputs.
ready_inputs_always(r, t) == TRUE

\* Rule::ready_inputs
ready_inputs(r, t) ==
    RuleInputs(r) = <<>> \/ ~(\E i \in 1..Len(RuleInputs(r)) : outdated(RuleInputs(r)[i], t))

(***************************************************************************)
(* The walk: Artifact::process with the schedule closure of                *)
(* process_artifacts.  The accumulator w carries the queue, the set of     *)
(* unique ids and the flag the call returns.                               *)
(***************************************************************************)
\* schedule without the test of the unique set.
schedule_nodedup(r, w) ==
    [w EXCEPT !.unique = @ \cup {id(r)}, !.queue = Append(@, r)]

schedule(r, w) ==
    IF id(r) \notin w.unique
    THEN [w EXCEPT !.unique = @ \cup {id(r)}, !.queue = Append(@, r)]
    ELSE w

\* Artifact::schedule_rule
schedule_rule(a, w) == IF has_rule(a) THEN schedule(rule(a), w) ELSE w

\* dep.time() > self.time() with >= in place of >.
dep_newer_or_equal(dep, a, t) == t[dep] >= t[a]

\* Artifact::process: dep.time() > self.time()
dep_newer(dep, a, t) == t[dep] > t[a]

RECURSIVE process_artifact(_, _, _)
RECURSIVE fold_inputs(_, _, _, _, _)

\* The map and fold over the inputs of a: every input is processed, in order.
fold_inputs(a, i, pre, t, w) ==
    IF i > Len(inputs(a))
    THEN [w EXCEPT !.flag = pre]
    ELSE LET dep == inputs(a)[i]
             w1 == process_artifact(dep, t, w)
             flag == w1.flag \/ dep_newer(dep, a, t)
         IN fold_inputs(a, i + 1, pre \/ flag, t, w1)

process_artifact(a, t, w) ==
    IF is_source(a)
    THEN [w EXCEPT !.flag = FALSE]
    ELSE LET w1 == fold_inputs(a, 1, is_phony(a), t, w)
         IN IF w1.flag
            THEN [schedule_rule(a, w1) EXCEPT !.flag = TRUE]
            ELSE [w1 EXCEPT !.flag = FALSE]

\* The variant of process that looks a goal up in both tables.
RECURSIVE goal_artifacts_any(_)
goal_artifacts_any(gs) ==
    IF gs = <<>> THEN <<>>
    ELSE IF Head(gs) \in Arts
         THEN <<Head(gs)>> \o goal_artifacts_any(Tail(gs))
         ELSE goal_artifacts_any(Tail(gs))

\* The phony table's get: the phony artifact of the name n, if any.
phony_get(n) ==
    IF \E a \in PhonyStore : artifact_name(a) = n
    THEN CHOOSE a \in PhonyStore : artifact_name(a) = n
    ELSE None

\* process: the goals that name a phony artifact, in the order given.
RECURSIVE goal_artifacts(_)
goal_artifacts(gs) ==
    IF gs = <<>> THEN <<>>
    ELSE IF phony_get(Head(gs)) # None
         THEN <<phony_get(Head(gs))>> \o goal_artifacts(Tail(gs))
         ELSE goal_artifacts(Tail(gs))

\* The loop over the artifacts, leaving after the first one.
walk_first_only(as, t, w) ==
    IF as = <<>> THEN w ELSE process_artifact(Head(as), t, w)

\* process_artifacts: the loop over the artifacts that fills the queue.
RECURSIVE walk(_, _, _)
walk(as, t, w) ==
    IF as = <<>> THEN w
    ELSE walk(Tail(as), t, process_artifact(Head(as), t, w))

EmptyWalk == [queue |-> <<>>, unique |-> {}, flag |-> FALSE]

Walk(gs, t) == walk(goal_artifacts(gs), t, EmptyWalk)

(***************************************************************************)
(* Picking ready rules from the queue.                                     *)
(***************************************************************************)
\* A pass that gives up at the first rule that is not ready.
pick_first_head_only(q, out, t) ==
    IF q # <<>> /\ ready_inputs(Head(q), t)
    THEN [rule |-> Head(q), queue |-> Tail(q), out |-> out]
    ELSE [rule |-> None, queue |-> q, out |-> out]

\* The loop of the initial fill: one pass over the queue that returns the
\* first ready rule, rotating the rules that are not ready to the back; out
\* is the loop's counter of rotations.
RECURSIVE pick_first(_, _, _)
pick_first(q, out, t) ==
    IF q = <<>>
    THEN [rule |-> None, queue |-> q, out |-> out]
    ELSE IF ready_inputs(Head(q), t)
         THEN [rule |-> Head(q), queue |-> Tail(q), out |-> out]
         ELSE IF out + 1 >= Len(q)
              THEN [rule |-> None, queue |-> Append(Tail(q), Head(q)), out |-> out + 1]
              ELSE pick_first(Append(Tail(q), Head(q)), out + 1, t)

\* The initial fill: one pass per job slot, also after a pass found nothing.
RECURSIVE initial_fill(_, _, _, _)
initial_fill(n, q, p, t) ==
    IF n = 0
    THEN [queue |-> q, pending |-> p]
    ELSE LET r == pick_first(q, 0, t)
         IN initial_fill(n - 1, r.queue,
                         IF r.rule = None THEN p ELSE Append(p, r.rule), t)

\* pending.len() < jobs with <= in place of <.
slot_free_off_by_one(p, j) == Len(p) <= j

\* The top-up loop's test pending.len() < jobs.
slot_free(p, j) == Len(p) < j

\* The top-up loop that runs after every completed task.
RECURSIVE top_up(_, _, _, _, _)
top_up(q, p, out, j, t) ==
    IF q = <<>> \/ ~slot_free(p, j)
    THEN [queue |-> q, pending |-> p, out |-> out]
    ELSE IF ready_inputs(Head(q), t)
         THEN top_up(Tail(q), Append(p, Head(q)), out, j, t)
         ELSE IF out + 1 >= Len(q)
              THEN [queue |-> Append(Tail(q), Head(q)), pending |-> p, out |-> out + 1]
              ELSE top_up(Append(Tail(q), Head(q)), p, out + 1, j, t)

\* Vec::swap_remove as select_all applies it to the completed task.
swap_remove(p, i) ==
    IF i = Len(p)
    THEN SubSeq(p, 1, Len(p) - 1)
    ELSE [k \in 1..(Len(p) - 1) |-> IF k = i THEN p[Len(p)] ELSE p[k]]

\* The value process_artifacts returns once no task is pending.
build_result(q) == IF q = <<>> THEN "ok" ELSE "err"

(***************************************************************************)
(* Diagnostics and the outcome of one invocation.  A bundle is the         *)
(* sequence of the severities of its entries.                              *)
(***************************************************************************)
Severities == {"Fatal", "Error", "Warning", "Note", "Debug"}

\* The derived order of the enum Severity: Fatal < Error < ... < Debug.
SeverityRank(s) ==
    CASE s = "Fatal" -> 0
      [] s = "Error" -> 1
      [] s = "Warning" -> 2
      [] s = "Note" -> 3
      [] s = "Debug" -> 4

\* Diagnostics::severity: the fold of min over the entries, seeded with Debug.
RECURSIVE severity_from(_, _)
severity_from(d, acc) ==
    IF d = <<>> THEN acc
    ELSE severity_from(Tail(d),
            IF SeverityRank(Head(d)) < SeverityRank(acc) THEN Head(d) ELSE acc)

severity(d) == severity_from(d, "Debug")

\* is_failed with < in place of <=.
is_failed_fatal_only(d) == SeverityRank(severity(d)) < SeverityRank("Error")

\* Diagnostics::is_failed
is_failed(d) == SeverityRank(severity(d)) <= SeverityRank("Error")

\* exec_out: the tool could not be spawned or its output is not UTF-8
\* (spawn = FALSE), or it ran and left an exit status and a stderr text; the
\* text either parses into a bundle or does not.
\* CompileInternal::invoke, LinkInternal::invoke: exec_out(..)? followed by
\* res.err.parse()?; the exit status is not looked at.
invoke_tool(run) ==
    IF ~run.spawn THEN [ok |-> FALSE, diag |-> <<>>]
    ELSE IF ~run.parsable THEN [ok |-> FALSE, diag |-> <<>>]
    ELSE [ok |-> TRUE, diag |-> run.stderr]

\* JsInternal::invoke: the callback throws or its promise is rejected
\* (ok = FALSE), or it resolves to a bundle.
invoke_js(ret) == [ok |-> ret.ok, diag |-> IF ret.ok THEN ret.diag ELSE <<>>]

\* The exit status the tool of this run left, "none" if it was not spawned.
exit_status(run) == IF run.spawn THEN run.status ELSE "none"

\* Rule::process up to the stamping: the result of create_dir_all, then of
\* invoke, then of is_failed.  stored tells whether Rule.diagnostics was
\* written.
rule_process(mkdir_ok, inv) ==
    IF ~mkdir_ok THEN [failed |-> TRUE, stored |-> FALSE, diag |-> <<>>]
    ELSE IF ~inv.ok THEN [failed |-> TRUE, stored |-> FALSE, diag |-> <<>>]
    ELSE [failed |-> is_failed(inv.diag), stored |-> TRUE, diag |-> inv.diag]

\* The stamping loop that stops after the first output.
set_time_first_output(r, t, n) ==
    [a \in Arts |-> IF a = RuleOutputs(r)[1] THEN n ELSE t[a]]

\* Rule::process: output.set_time(time) for every output.
set_time_outputs(r, t, n) ==
    [a \in Arts |-> IF a \in Range(RuleOutputs(r)) THEN n ELSE t[a]]

\* notify_rules_state: one event per rule, in the order given.
notify_rules_state(rs, st) == [k \in 1..Len(rs) |-> <<rs[k], st>>]

\* process_rule that returns the error without the completion event.
completion_event_on_success(r, is_err) ==
    IF is_err THEN <<>> ELSE notify_rules_state(<<r>>, "Processed")

\* process_rule: the event that follows rule.process(), whatever it returned.
completion_event(r, is_err) == notify_rules_state(<<r>>, "Processed")

\* The early return of process_artifacts taken for no build at all.
stop_after_walk_never(d) == FALSE

\* process_artifacts: if dry_run { return Ok(()) }
stop_after_walk(d) == d

(***************************************************************************)
(* The artifact store while the build script is loaded: interning with     *)
(* reuse (Artifact::new), usage conversion, rule construction and the      *)
(* release of handles.  Artifacts are reference counted: one lives as long *)
(* as a caller, the scope or the input set of a living rule holds it, a    *)
(* rule lives as long as a living artifact has it as its rule.             *)
(***************************************************************************)
ObjIds == 1..MaxObjs

RuleIds == 1..MaxRules

\* The artifacts the script asks for: the files x and y, and a goal that has
\* the name of x. Its rules make what is named x from y, one output each
\* while the script is loaded.
Keys == {<<"x", "Actual">>, <<"y", "Actual">>, <<"x", "Phony">>}

Usages == {"Input", "Output"}

\* A slot of the heap that holds no artifact.
Free == [live |-> FALSE, name |-> "", kind |-> "", type_ |-> "", time |-> 0, rule |-> 0]

Live(h) == {a \in ObjIds : h[a].live}

\* IsArtifactUsage::TYPE
usage_type(u) == IF u = "Input" THEN "Source" ELSE "Product"

\* Artifact::is_source of the artifact in a slot of the heap.
source_slot(o) == o.type_ = "Source"

\* Output::reusable that accepts every artifact.
reusable_always(u, o) == TRUE

\* IsArtifactUsage::reusable of Input and of Output
reusable(u, o) == IF u = "Input" THEN TRUE ELSE o.type_ # "Source" /\ o.rule = 0

\* A lookup that never finds an entry.
get_miss(st, h, n) == 0

\* WeakHashSet::get by name: the living entry of that name, 0 if none.
get(st, h, n) ==
    IF \E a \in st : h[a].live /\ h[a].name = n
    THEN CHOOSE a \in st : h[a].live /\ h[a].name = n
    ELSE 0

\* The rule objects some living artifact has as its rule.
LiveRules(h) == {h[a].rule : a \in Live(h)} \ {0}

\* The artifacts a strong reference leads to: the handles hd of callers,
\* the goals sg of the scope, and the input sets ri of the rules that live
\* (a rule lives while a living artifact has it as its rule or a caller
\* holds it, rh).  The tables of the store hold weak references only.
Referenced(h, hd, sg, ri, rh) ==
    {x[1] : x \in hd} \cup sg \cup UNION {ri[r] : r \in LiveRules(h) \cup rh}

\* Tables that hold their entries strongly: nothing is ever freed.
release_never(h, hd, sg, ri, rh) == h

\* Dropping the last strong reference: an artifact nobody holds is freed,
\* which may free its rule and so release the inputs of that rule.
RECURSIVE release(_, _, _, _, _)
release(h, hd, sg, ri, rh) ==
    LET dead == Live(h) \ Referenced(h, hd, sg, ri, rh)
    IN IF dead = {} THEN h
       ELSE release([a \in ObjIds |-> IF a \in dead THEN Free ELSE h[a]],
                    hd, sg, ri, rh)

\* Artifact::new: reuse of the living artifact of that name, else a new one
\* in the first free slot, registered in the set of its kind.
new(n, k, u) ==
    LET st == IF k = "Actual" THEN actual ELSE phony
        e == get(st, heap, n)
        a == CHOOSE x \in ObjIds : ~heap[x].live /\ \A y \in ObjIds : ~heap[y].live => x <= y
    IN IF e # 0
       THEN [ok |-> reusable(u, heap[e]),
             id |-> IF reusable(u, heap[e]) THEN e ELSE 0,
             heap |-> heap, actual |-> actual, phony |-> phony]
       ELSE [ok |-> TRUE, id |-> a,
             heap |-> [heap EXCEPT ![a] =
                         [live |-> TRUE, name |-> n, kind |-> k,
                          type_ |-> usage_type(u), time |-> 0, rule |-> 0]],
             actual |-> IF k = "Actual" THEN actual \cup {a} ELSE actual,
             phony |-> IF k = "Phony" THEN phony \cup {a} ELSE phony]

\* There is room for one more artifact, or the name is taken.
CanIntern(n, k) ==
    \/ get(IF k = "Actual" THEN actual ELSE phony, heap, n) # 0
    \/ \E x \in ObjIds : ~heap[x].live

\* The store variables after a step that left heap h, handles hd, goals sg,
\* rule inputs ri, rule handles rh and rule outputs ro behind: what lost its
\* last reference is freed, and a weak reference to it upgrades no more.
Settle(h, hd, sg, ri, rh, ro) ==
    LET h2 == release(h, hd, sg, ri, rh)
        alive == LiveRules(h2) \cup rh
    IN /\ heap' = h2
       /\ actual' = {a \in actual : h2[a].live}
       /\ phony' = {a \in phony : h2[a].live}
       /\ held' = hd
       /\ scope_goals' = sg
       /\ rule_held' = rh
       /\ rule_inputs' = [r \in RuleIds |-> IF r \in alive THEN ri[r] ELSE {}]
       /\ rule_outputs' = [r \in RuleIds |->
                              IF r \in alive THEN ro[r] \cap Live(h2) ELSE {}]

\* No artifact has been interned yet.
NoArtifacts ==
    /\ heap = [a \in ObjIds |-> Free]
    /\ actual = {}
    /\ phony = {}
    /\ held = {}
    /\ scope_goals = {}
    /\ rule_inputs = [r \in RuleIds |-> {}]
    /\ rule_outputs = [r \in RuleIds |-> {}]
    /\ rule_held = {}
    /\ last = [ok |-> TRUE]

(***************************************************************************)
(* Watch mode: State::watch_inputs hands every batch of touched paths to   *)
(* ArtifactStore::update_sources, which runs one update_source per path    *)
(* under join_all.  An update_source that found a source is suspended in   *)
(* update_time at modified(..).await until the stat of its file returns.   *)
(***************************************************************************)
\* The paths below the watched directory the watcher reports: the two
\* sources, a product, and a file that has the name of a goal.
WatchPaths == {"a.c", "a.h", "a.o", "build"}

\* What modified(path) comes to: the file cannot be stat'ed, it is no newer
\* than the artifact, or it is newer.
StatResults == {"err", "same", "newer"}

\* No batch is in work; n counts the batches so far.
NoWatch ==
    [batch |-> {}, pc |-> [p \in WatchPaths |-> "idle"],
     ret |-> [p \in WatchPaths |-> "none"], applied |-> {}, guards |-> 0,
     n |-> 0]

\* update_source: self.actual.read().get(name) finds an artifact and
\* artifact.is_source() holds.
looked_up(p) == p \in ActualStore /\ is_source(p)

\* update_sources: the fold over the results, Ok(false) to start with; an
\* Err stays, an Ok(true) stays unless an Err follows or precedes.
fold_results(rets) ==
    IF "err" \in rets THEN "err"
    ELSE IF "true" \in rets THEN "true"
    ELSE "false"

(***************************************************************************)
(* Compiler configurations.  A configuration holds the detected toolchain  *)
(* (props) and a ToolchainOpts; Internal::config derives a configuration   *)
(* by extending the options, CompilerConfig::hash feeds props and options  *)
(* to the hasher.  An option value is written as a sequence of entries, an *)
(* entry as a sequence of strings: <<>> is None or the empty collection.   *)
(***************************************************************************)

\* The fields of the option structs in declaration order, with their types.
BaseOpts ==
    << <<"stdlib", "StrOpt">>, <<"sysroot", "StrOpt">>, <<"pic", "BoolOpt">>,
       <<"opt", "ValOpt">>, <<"dbg", "OptMap">>, <<"mach", "OptMap">>,
       <<"feat", "OptMap">>, <<"flags", "StrList">> >>

CCompileOpts ==
    << <<"std", "StrOpt">>, <<"warn", "OptMap">>, <<"defs", "StrMap">>,
       <<"dirs", "StrSet">>, <<"incs", "StrSet">>, <<"no", "StrSet">>,
       <<"flags", "StrList">> >>

DCompileOpts ==
    << <<"release", "BoolOpt">>, <<"betterc", "BoolOpt">>, <<"check", "OptMap">>,
       <<"debug", "OptMap">>, <<"version", "OptMap">>, <<"preview", "StrMap">>,
       <<"feat", "OptMap">>, <<"dirs", "StrSet">>, <<"no", "StrSet">>,
       <<"flags", "StrList">> >>

LinkOpts ==
    << <<"dirs", "StrSet">>, <<"libs", "StrSet">>, <<"whole_libs", "StrSet">>,
       <<"no", "StrSet">>, <<"pie", "ValOpt">>, <<"shared", "ValOpt">>,
       <<"shareds", "StrSet">>, <<"static_", "ValOpt">>, <<"statics", "OptSet">>,
       <<"opts", "StrList">>, <<"flags", "StrList">> >>

DumpOpts ==
    << <<"target", "StrOpt">>, <<"arch", "StrOpt">>, <<"disasm", "OptSet">>,
       <<"flags", "StrList">> >>

StripOpts ==
    << <<"strip", "StrSet">>, <<"keep", "StrSet">>, <<"discard", "StrSet">>,
       <<"symbols", "SymMap">>, <<"flags", "StrList">> >>

\* ToolchainOpts: its members in declaration order, each with its struct.
ToolchainOpts ==
    << <<"base", BaseOpts>>, <<"cc", CCompileOpts>>, <<"c", CCompileOpts>>,
       <<"cxx", CCompileOpts>>, <<"d", DCompileOpts>>, <<"link", LinkOpts>>,
       <<"dump", DumpOpts>>, <<"strip", StripOpts>> >>

\* An option is named by the member and the field.
OptKeys ==
    UNION {{<<ToolchainOpts[i][1], ToolchainOpts[i][2][j][1]>> :
                j \in 1..Len(ToolchainOpts[i][2])} : i \in 1..Len(ToolchainOpts)}

OptType(k) ==
    LET i == CHOOSE x \in 1..Len(ToolchainOpts) : ToolchainOpts[x][1] = k[1]
        st == ToolchainOpts[i][2]
        j == CHOOSE x \in 1..Len(st) : st[x][1] = k[2]
    IN st[j][2]

\* ToolchainOpts::default(): every option None or empty.
DefaultOpts == [k \in OptKeys |-> <<>>]

\* The value a script gives an option of each type.
Given(t) ==
    CASE t = "StrOpt"  -> << <<"s">> >>
      [] t = "BoolOpt" -> << <<"true">> >>
      [] t = "ValOpt"  -> << <<"Int", "2">> >>
      [] t = "OptMap"  -> << <<"k", "Bool", "true">> >>
      [] t = "StrMap"  -> << <<"k", "v">> >>
      [] t = "SymMap"  -> << <<"k", "true">> >>
      [] t = "StrSet"  -> << <<"s">> >>
      [] t = "OptSet"  -> << <<"Str", "s">> >>
      [] t = "StrList" -> << <<"s">> >>

\* Hash for str: the bytes and the terminator 0xff.
hash_str(s) == <<s, "ff">>

\* Hash for OptVal (derived): the discriminant, then the payload.
hash_OptVal(e) ==
    IF e[1] = "Off" THEN <<"Off">>
    ELSE IF e[1] = "Str" THEN <<"Str">> \o hash_str(e[2])
    ELSE <<e[1], e[2]>>

\* Hash of one entry of a value of type t.
hash_entry(t, e) ==
    CASE t \in {"StrOpt", "StrSet", "StrList"} -> hash_str(e[1])
      [] t = "BoolOpt" -> <<e[1]>>
      [] t \in {"ValOpt", "OptSet"} -> hash_OptVal(e)
      [] t = "OptMap" -> hash_str(e[1]) \o hash_OptVal(Tail(e))
      [] t = "StrMap" -> hash_str(e[1]) \o hash_str(e[2])
      [] t = "SymMap" -> hash_str(e[1]) \o
                         (IF Len(e) = 1 THEN <<"None">> ELSE <<"Some", e[2]>>)

RECURSIVE hash_entries(_, _)
hash_entries(t, v) ==
    IF v = <<>> THEN <<>> ELSE hash_entry(t, Head(v)) \o hash_entries(t, Tail(v))

\* What hashing a field of type t feeds to the hasher: an Option its
\* discriminant and the value, a Vec its length and the elements, a map or
\* set walked by a for loop only its entries.
hash_value(t, v) ==
    CASE t \in {"StrOpt", "BoolOpt", "ValOpt"} ->
            IF v = <<>> THEN <<"None">> ELSE <<"Some">> \o hash_entry(t, v[1])
      [] t = "StrList" -> <<ToString(Len(v))>> \o hash_entries(t, v)
      [] OTHER -> hash_entries(t, v)

\* The fields each impl Hash feeds to the hasher, in its order.
HashedFields(st) ==
    CASE st = BaseOpts ->
            <<"opt", "stdlib", "sysroot", "pic", "dbg", "mach", "feat", "flags">>
      [] st = CCompileOpts ->
            <<"std", "warn", "defs", "dirs", "incs", "no", "flags">>
      [] st = DCompileOpts ->
            <<"release", "betterc", "check", "debug", "version", "feat",
              "dirs", "no", "flags">>
      [] st = LinkOpts ->
            <<"dirs", "libs", "whole_libs", "no", "pie", "shared", "shareds",
              "static_", "statics", "opts", "flags">>
      [] st = DumpOpts -> <<"target", "arch", "disasm", "flags">>
      [] st = StripOpts -> <<"strip", "keep", "discard", "symbols", "flags">>

RECURSIVE hash_fields(_, _, _)
hash_fields(o, m, fs) ==
    IF fs = <<>> THEN <<>>
    ELSE hash_value(OptType(<<m, Head(fs)>>), o[<<m, Head(fs)>>])
         \o hash_fields(o, m, Tail(fs))

\* Hash for ToolchainOpts (derived): the members in declaration order.
RECURSIVE hash_members(_, _)
hash_members(o, i) ==
    IF i > Len(ToolchainOpts) THEN <<>>
    ELSE hash_fields(o, ToolchainOpts[i][1], HashedFields(ToolchainOpts[i][2]))
         \o hash_members(o, i + 1)

\* CompilerConfig::hash: the digest of what (&props, &opts) feeds to the
\* hasher; the digest is taken as free of collisions, so the hash is written
\* as the fed sequence.  Every configuration of a run shares the props.
hash(o) == <<"props">> \o hash_members(o, 1)

\* The fields each impl Extend takes over from the given options.
ExtendedFields(st) ==
    CASE st = BaseOpts ->
            {"opt", "stdlib", "sysroot", "pic", "dbg", "mach", "feat", "flags"}
      [] st = CCompileOpts ->
            {"std", "warn", "defs", "dirs", "incs", "no", "flags"}
      [] st = DCompileOpts ->
            {"release", "betterc", "check", "debug", "version", "feat",
             "dirs", "no", "flags"}
      [] st = LinkOpts ->
            {"dirs", "libs", "whole_libs", "pie", "shared", "static_", "no",
             "opts", "flags"}
      [] st = DumpOpts -> {"target", "arch", "disasm"}
      [] st = StripOpts -> {"strip", "keep", "discard", "symbols", "flags"}

Extended(k) ==
    LET i == CHOOSE x \in 1..Len(ToolchainOpts) : ToolchainOpts[x][1] = k[1]
    IN k[2] \in ExtendedFields(ToolchainOpts[i][2])

\* Extend of one entry: a map replaces the value of a key it has, a set
\* keeps an element it has, a Vec appends.
extend_entry(t, v, e) ==
    IF t = "StrList" THEN Append(v, e)
    ELSE IF t \in {"OptMap", "StrMap", "SymMap"}
         THEN IF \E i \in 1..Len(v) : v[i][1] = e[1]
              THEN [i \in 1..Len(v) |-> IF v[i][1] = e[1] THEN e ELSE v[i]]
              ELSE Append(v, e)
    ELSE IF \E i \in 1..Len(v) : v[i] = e THEN v ELSE Append(v, e)

RECURSIVE extend_value(_, _, _)
extend_value(t, v, conf) ==
    IF conf = <<>> THEN v
    ELSE IF t \in {"StrOpt", "BoolOpt", "ValOpt"} THEN conf
    ELSE extend_value(t, extend_entry(t, v, Head(conf)), Tail(conf))

\* Extend for ToolchainOpts: member by member, field by field.
extend(o, conf) ==
    [k \in OptKeys |-> IF Extended(k) THEN extend_value(OptType(k), o[k], conf[k])
                       ELSE o[k]]

\* Internal::detect: the first configuration has the default options.
NoConfig == [opts |-> DefaultOpts, parent |-> DefaultOpts,
             new_opts |-> DefaultOpts, n |-> 0]

(***************************************************************************)
(* File names of link outputs.  A string is written as the sequence of its *)
(* pieces, so that format! is concatenation.                               *)
(***************************************************************************)

PlatformKind == {"None", "Unix", "Darwin", "Windows"}

\* Option<SemVer>: <<>> is None, otherwise major, minor and patch.
Versions == {<<>>} \cup {<<ma, mi, pa>> : ma \in 0..MaxVersion,
                                         mi \in 0..MaxVersion,
                                         pa \in 0..MaxVersion}

\* FileKind; library and version are read only of the variants having them.
FileKind ==
    {[type |-> "Executable", library |-> FALSE, version |-> <<>>],
     [type |-> "Object", library |-> FALSE, version |-> <<>>]}
    \cup {[type |-> "Static", library |-> l, version |-> <<>>] : l \in BOOLEAN}
    \cup {[type |-> "Dynamic", library |-> l, version |-> v] :
              l \in BOOLEAN, v \in Versions}

\* Display for Version: major.minor.patch.
fmt_version(v) == <<ToString(v[1]), ".", ToString(v[2]), ".", ToString(v[3])>>

\* A piece of a format string: the empty string adds nothing.
piece(s) == IF s = "" THEN <<>> ELSE <<s>>

\* FileKind::file_name: prefix, suffix and version by platform and kind,
\* then the formatted name.
file_name(self, platform, name) ==
    LET lib == IF self.library THEN "lib" ELSE ""
        psv == IF platform \in {"None", "Unix"}
               THEN CASE self.type = "Executable" -> <<"", "", <<>> >>
                      [] self.type = "Dynamic" -> <<lib, ".so", self.version>>
                      [] self.type = "Static" -> <<lib, ".a", <<>> >>
                      [] self.type = "Object" -> <<"", ".o", <<>> >>
               ELSE IF platform = "Darwin"
               THEN CASE self.type = "Executable" -> <<"", "", <<>> >>
                      [] self.type = "Dynamic" -> <<lib, ".dylib", self.version>>
                      [] self.type = "Static" -> <<lib, ".a", <<>> >>
                      [] self.type = "Object" -> <<"", ".o", <<>> >>
               ELSE CASE self.type = "Executable" -> <<"", ".exe", <<>> >>
                      [] self.type = "Dynamic" -> <<lib, ".dll", <<>> >>
                      [] self.type = "Static" -> <<lib, ".lib", <<>> >>
                      [] self.type = "Object" -> <<"", ".obj", <<>> >>
    IN IF psv[3] # <<>>
       THEN piece(psv[1]) \o <<name>> \o piece(psv[2]) \o <<".">> \o fmt_version(psv[3])
       ELSE piece(psv[1]) \o <<name>> \o piece(psv[2])

\* No name was asked for yet.
NoName == [called |-> FALSE, kind |-> [type |-> "Executable", library |-> FALSE,
                                       version |-> <<>>],
           platform |-> "None", name |-> "foo", out |-> <<>>]

(***************************************************************************)
(* The root scope.  A variable or sub-scope is written <<name, id>>, the   *)
(* id telling the objects of one name apart; two of them are equal for a   *)
(* Set when their names are.                                               *)
(***************************************************************************)

VarNames == {"v", "w"}

ScopeNames == {"s"}

\* Scope::new_root, and the VariableStore with no variable.
NoScope == [variables |-> {}, var_table |-> {}, scopes |-> {}, made |-> 0,
            ret |-> <<>>]

names(S) == {e[1] : e \in S}

\* Set::get by name: the element of that name, or <<>> for None.
lookup(S, n) ==
    IF \E e \in S : e[1] = n THEN CHOOSE e \in S : e[1] = n ELSE <<>>

\* Set::insert: a set that has an element of that name keeps it.
insert(S, e) == IF e[1] \in names(S) THEN S ELSE S \cup {e}

\* The entries of the weak variable table that upgrade: a variable lives in
\* the variable set of the scope or in the handle the script got last.
upgradable(sc) == {e \in sc.var_table : e \in sc.variables \/ e = sc.ret}

(***************************************************************************)
(* Files on disk and their Actual artifacts: Directory::input and          *)
(* Directory::output, the compile rule and the dependency file its tool    *)
(* leaves.                                                                 *)
(***************************************************************************)
\* The clock of the file model stops here.
MaxClock == 4

\* The longest list of dependencies a dependency file carries.
MaxDeps == 2

\* a.c is the source of the compile rule and a.o its output, a.h is a header
\* and g.h a header that a script rule generates.
FileNames == {"a.c", "a.h", "g.h", "a.o"}

\* The names a dependency file can list.
DepNames == {"a.c", "a.h", "g.h"}

\* What the store has under a name it does not know.
FreeFile == [known |-> FALSE, type_ |-> "", time |-> 0, rule |-> 0]

\* A path nothing exists at.
Absent == [exists |-> FALSE, perm |-> "none", mtime |-> 0]

\* Nothing has been called yet: no artifact is known, no rule exists.
NoFiles ==
    [fs |-> [n \in FileNames |-> Absent],
     tbl |-> [n \in FileNames |-> FreeFile],
     held |-> {},
     cc |-> FALSE,
     incs |-> {},
     dep |-> "none",
     clock |-> 1,
     stamp |-> [n \in FileNames |-> 0],
     ret |-> [op |-> "none", name |-> "", ok |-> TRUE, wrote |-> FALSE]]

\* system::access for AccessMode::READ and AccessMode::WRITE.
access(f, mode) ==
    /\ f.exists
    /\ IF mode = "READ" THEN f.perm \in {"r", "rw"} ELSE f.perm = "rw"

\* Artifact::new on the Actual table t: an entry that is alive is reused if
\* the usage allows it, else a new artifact at the epoch is entered.
new_actual(t, n, u) ==
    IF t[n].known
    THEN [ok |-> reusable(u, t[n]), tbl |-> t]
    ELSE [ok |-> TRUE,
          tbl |-> [t EXCEPT ![n] = [known |-> TRUE, type_ |-> usage_type(u),
                                    time |-> 0, rule |-> 0]]]

\* An init of an output that never reads the modification time.
init_no_stat(f, o, u) ==
    IF u = "Input"
    THEN IF ~access(f, "READ")
         THEN [ok |-> FALSE, time |-> o.time]
         ELSE [ok |-> TRUE, time |-> f.mtime]
    ELSE IF f.exists /\ ~access(f, "WRITE")
         THEN [ok |-> FALSE, time |-> o.time]
         ELSE [ok |-> TRUE, time |-> o.time]

\* Artifact<Input, Actual>::init and Artifact<Output, Actual>::init on the
\* file f for the artifact o.
init(f, o, u) ==
    IF u = "Input"
    THEN IF ~access(f, "READ")
         THEN [ok |-> FALSE, time |-> o.time]
         ELSE [ok |-> TRUE, time |-> f.mtime]
    ELSE IF f.exists
         THEN IF ~access(f, "WRITE")
              THEN [ok |-> FALSE, time |-> o.time]
              ELSE [ok |-> TRUE, time |-> f.mtime]
         ELSE [ok |-> TRUE, time |-> o.time]

\* Artifact::new_init: new, then init of the artifact it returned.
new_init(t, fs, n, u) ==
    LET c == new_actual(t, n, u)
    IN IF ~c.ok
       THEN [ok |-> FALSE, tbl |-> t]
       ELSE LET i == init(fs[n], c.tbl[n], u)
            IN [ok |-> i.ok, tbl |-> [c.tbl EXCEPT ![n].time = i.time]]

\* read_deps without the filter that drops the source.
RECURSIVE read_deps_no_filter(_, _, _, _)
read_deps_no_filter(t, fs, list, src) ==
    IF list = <<>>
    THEN [ok |-> TRUE, tbl |-> t, deps |-> {}]
    ELSE LET r == new_init(t, fs, Head(list), "Input")
             rest == read_deps_no_filter(r.tbl, fs, Tail(list), src)
         IN [ok |-> r.ok /\ rest.ok, tbl |-> rest.tbl,
             deps |-> {Head(list)} \cup rest.deps]

\* ArtifactStore::read_deps on the parsed list of a dependency file: every
\* path but the source is interned as an input and initialised, all of them
\* also when one fails; the set of them is returned if none failed.
RECURSIVE read_deps(_, _, _, _)
read_deps(t, fs, list, src) ==
    IF list = <<>>
    THEN [ok |-> TRUE, tbl |-> t, deps |-> {}]
    ELSE IF Head(list) = src
         THEN read_deps(t, fs, Tail(list), src)
         ELSE LET r == new_init(t, fs, Head(list), "Input")
                  rest == read_deps(r.tbl, fs, Tail(list), src)
              IN [ok |-> r.ok /\ rest.ok, tbl |-> rest.tbl,
                  deps |-> {Head(list)} \cup rest.deps]

\* The artifacts something holds a strong reference of: the handles of the
\* script, and the source and the headers of the compile rule.
strong(hs, cc, incs) == hs \cup (IF cc THEN {"a.c"} \cup incs ELSE {})

\* The weak table once the references a call dropped are gone.
expire(t, keep) == [n \in FileNames |-> IF n \in keep THEN t[n] ELSE FreeFile]

(***************************************************************************)
(* State machine                                                           *)
(***************************************************************************)
\* Sequences over S without repetition, of length at most n.
RECURSIVE SeqsUpTo(_, _)
SeqsUpTo(S, n) ==
    IF n = 0 THEN {<<>>}
    ELSE LET shorter == SeqsUpTo(S, n - 1)
         IN shorter \cup {Append(s, x) : s \in shorter, x \in S}

\* The goals the user names on the command line.
GoalNames == {"build", "map", "all", "gen"}

GoalLists == {gs \in SeqsUpTo(GoalNames, MaxGoals) :
                 \A i, j \in 1..Len(gs) : i # j => gs[i] # gs[j]}

Init ==
    /\ time \in {t \in [Arts -> 0..MaxTime] :
                    /\ \A a \in PhonyStore : t[a] = 0
                    /\ \A a \in Sources : t[a] >= 1
                    /\ t["a.h"] = 1}
    /\ state = [r \in Rules |-> "Processed"]
    /\ goals \in GoalLists
    /\ jobs \in 0..MaxJobs
    /\ dry_run \in BOOLEAN
    /\ queue = <<>>
    /\ unique = {}
    /\ pending = <<>>
    /\ phase = "idle"
    /\ result = "none"
    /\ now = MaxTime
    /\ builds = 0
    /\ invoked = [r \in Rules |-> 0]
    /\ finished = {}
    /\ failed = {}
    /\ prev = [clean |-> FALSE]
    /\ events = <<>>
    /\ diagnostics = [r \in Rules |-> <<>>]
    /\ badexit = {}
    /\ NoArtifacts
    /\ watch = NoWatch
    /\ cfg = NoConfig
    /\ named = NoName
    /\ scope = NoScope
    /\ files = NoFiles

\* The rule states after the walk and the first poll of the started tasks.
StartedState(st, scheduled, started) ==
    [r \in Rules |->
        IF r \in started THEN "Processing"
        ELSE IF r \in scheduled THEN "Scheduled"
        ELSE st[r]]

\* ArtifactStore::process up to its first suspension, the artifacts having
\* the timestamps t: the walk, and unless dry_run the initial fill and the
\* first poll of the tasks it started.
process_from(t) ==
    /\ LET w == Walk(goals, t)
           f == IF stop_after_walk(dry_run)
                THEN [queue |-> w.queue, pending |-> <<>>]
                ELSE initial_fill(jobs, w.queue, <<>>, t)
       IN /\ unique' = w.unique
          /\ events' = IF stop_after_walk(dry_run) THEN <<>>
                       ELSE notify_rules_state(w.queue, "Scheduled")
                            \o notify_rules_state(f.pending, "Processing")
          /\ queue' = f.queue
          /\ pending' = f.pending
          /\ state' = StartedState(state, Range(w.queue), Range(f.pending))
          /\ invoked' = [r \in Rules |-> IF r \in Range(f.pending) THEN 1 ELSE 0]
          /\ phase' = IF f.pending = <<>> THEN "idle" ELSE "running"
          /\ result' = IF dry_run THEN "ok"
                       ELSE IF f.pending = <<>> THEN build_result(f.queue)
                       ELSE "none"
    /\ builds' = builds + 1
    /\ finished' = {}
    /\ failed' = {}
    /\ prev' = [clean |-> builds > 0 /\ result = "ok" /\ failed = {} /\ ~dry_run]
    /\ badexit' = {}
    /\ time' = t
    /\ UNCHANGED <<goals, jobs, dry_run, diagnostics, storevars, toolvars>>

process == process_from(time) /\ UNCHANGED <<now, watch>>

\* Main::run: the build the program runs once the rules are loaded.
Process ==
    /\ phase = "idle"
    /\ builds = 0
    /\ process

\* A later build of the same goals (watch mode, or a host calling process
\* again), after the previous one returned.
Rebuild ==
    /\ phase = "idle"
    /\ builds > 0
    /\ builds < MaxBuilds
    /\ process

\* What follows the completion of the task at index i of pending_tasks:
\* the task emits its completion event, select_all hands it out, the top-up
\* loop runs, the new tasks are polled, and process returns when nothing is
\* pending any more.
AfterCompletion(i, f, is_err) ==
    LET started == SubSeq(f.pending, Len(pending), Len(f.pending))
    IN /\ queue' = f.queue
       /\ pending' = f.pending
       /\ invoked' = [r \in Rules |->
                         IF r \in Range(started) THEN invoked[r] + 1 ELSE invoked[r]]
       /\ state' = [x \in Rules |->
                       IF x \in Range(started) THEN "Processing"
                       ELSE IF x = pending[i] /\ ~is_err THEN "Processed"
                       ELSE state[x]]
       /\ events' = events \o completion_event(pending[i], is_err)
                           \o notify_rules_state(started, "Processing")
       /\ phase' = IF f.pending = <<>> THEN "idle" ELSE "running"
       /\ result' = IF f.pending = <<>> THEN build_result(f.queue) ELSE "none"
       /\ finished' = finished \cup {pending[i]}
       /\ UNCHANGED <<goals, jobs, dry_run, unique, builds, prev, storevars, watch, toolvars>>

\* The invocation of the rule at index i of pending_tasks ends: Rule::process
\* with create_dir_all returning mkdir_ok and invoke returning inv, the tool
\* (if one ran) having left the exit status exit.
Finish(i, mkdir_ok, inv, exit) ==
    /\ phase = "running"
    /\ i \in 1..Len(pending)
    /\ LET r == pending[i]
           res == rule_process(mkdir_ok, inv)
           stamped == IF res.failed THEN time ELSE set_time_outputs(r, time, now + 1)
           f == top_up(queue, swap_remove(pending, i), 0, jobs, stamped)
       IN /\ time' = stamped
          /\ now' = IF res.failed THEN now ELSE now + 1
          /\ failed' = IF res.failed THEN failed \cup {r} ELSE failed
          /\ diagnostics' = IF res.stored
                            THEN [diagnostics EXCEPT ![r] = res.diag]
                            ELSE diagnostics
          /\ badexit' = IF mkdir_ok /\ exit \in {"nonzero", "killed"}
                        THEN badexit \cup {r} ELSE badexit
          /\ AfterCompletion(i, f, res.failed)

\* Rule::process succeeds: the invocation returns an empty bundle and every
\* output is stamped with Time::now().
Succeed(i) == Finish(i, TRUE, [ok |-> TRUE, diag |-> <<>>], "none")

\* Rule::process fails: the invocation returns an error.
Fail(i) == Finish(i, TRUE, [ok |-> FALSE, diag |-> <<>>], "none")

\* One run of the program without watch mode: a single build.
Next ==
    \/ Process
    \/ \E i \in 1..Len(pending) : Succeed(i)
    \/ \E i \in 1..Len(pending) : Fail(i)

Spec == Init /\ [][Next]_vars

\* Builds that follow each other, every rule invocation succeeding.
NextRebuild ==
    \/ Process
    \/ Rebuild
    \/ \E i \in 1..Len(pending) : Succeed(i)

SpecRebuild == Init /\ [][NextRebuild]_vars

(***************************************************************************)
(* Builds whose goals need not name a goal of the script.                  *)
(***************************************************************************)

\* What the caller of process passes as goals: the name of a goal, the name
\* of a file that has a rule, and a name no artifact has.
NamedGoals == {"build", "app", "nope"}

NamedLists == SeqsUpTo(NamedGoals, MaxGoals)

InitGoals ==
    /\ time \in {t \in [Arts -> 0..MaxTime] :
                    /\ \A a \in PhonyStore : t[a] = 0
                    /\ \A a \in Sources : t[a] >= 1
                    /\ t["a.h"] = 1}
    /\ state = [r \in Rules |-> "Processed"]
    /\ goals \in NamedLists
    /\ jobs \in 0..MaxJobs
    /\ dry_run \in BOOLEAN
    /\ queue = <<>>
    /\ unique = {}
    /\ pending = <<>>
    /\ phase = "idle"
    /\ result = "none"
    /\ now = MaxTime
    /\ builds = 0
    /\ invoked = [r \in Rules |-> 0]
    /\ finished = {}
    /\ failed = {}
    /\ prev = [clean |-> FALSE]
    /\ events = <<>>
    /\ diagnostics = [r \in Rules |-> <<>>]
    /\ badexit = {}
    /\ NoArtifacts
    /\ watch = NoWatch
    /\ cfg = NoConfig
    /\ named = NoName
    /\ scope = NoScope
    /\ files = NoFiles

SpecGoals == InitGoals /\ [][Next]_vars

\* Builds asked for the goal that has the name of the object file.
IdGoals == {"a.o", "build"}

IdLists == {gs \in SeqsUpTo(IdGoals, MaxGoals) :
               \A i, j \in 1..Len(gs) : i # j => gs[i] # gs[j]}

InitIds ==
    /\ time \in {t \in [Arts -> 0..MaxTime] :
                    /\ \A a \in PhonyStore : t[a] = 0
                    /\ \A a \in Sources : t[a] >= 1
                    /\ t["a.h"] = 1}
    /\ state = [r \in Rules |-> "Processed"]
    /\ goals \in IdLists
    /\ jobs \in 0..MaxJobs
    /\ dry_run \in BOOLEAN
    /\ queue = <<>>
    /\ unique = {}
    /\ pending = <<>>
    /\ phase = "idle"
    /\ result = "none"
    /\ now = MaxTime
    /\ builds = 0
    /\ invoked = [r \in Rules |-> 0]
    /\ finished = {}
    /\ failed = {}
    /\ prev = [clean |-> FALSE]
    /\ events = <<>>
    /\ diagnostics = [r \in Rules |-> <<>>]
    /\ badexit = {}
    /\ NoArtifacts
    /\ watch = NoWatch
    /\ cfg = NoConfig
    /\ named = NoName
    /\ scope = NoScope
    /\ files = NoFiles

SpecIds == InitIds /\ [][Next]_vars

\* The bundles a tool's stderr parses into, or a callback resolves to.
Diags == SeqsUpTo(Severities, MaxDiags)

\* What running the external tool of a compile or link rule can come to.
ToolRuns ==
    {[spawn |-> FALSE, status |-> "0", parsable |-> TRUE, stderr |-> <<>>]}
    \cup {[spawn |-> TRUE, status |-> st, parsable |-> FALSE, stderr |-> <<>>] :
              st \in {"0", "nonzero", "killed"}}
    \cup {[spawn |-> TRUE, status |-> st, parsable |-> TRUE, stderr |-> d] :
              st \in {"0", "nonzero", "killed"}, d \in Diags}

\* What calling the function of a script-callback rule can come to.
JsReturns ==
    {[ok |-> FALSE, diag |-> <<>>]} \cup {[ok |-> TRUE, diag |-> d] : d \in Diags}

\* The invocation of a compile or link rule ends.
Invoke(i) ==
    /\ i \in 1..Len(pending)
    /\ RuleKind(pending[i]) \in {"Compile", "Link"}
    /\ \E mkdir_ok \in BOOLEAN, run \in ToolRuns :
          Finish(i, mkdir_ok, invoke_tool(run), exit_status(run))

\* The invocation of a script-callback rule ends.
Call(i) ==
    /\ i \in 1..Len(pending)
    /\ RuleKind(pending[i]) = "Js"
    /\ \E ret \in JsReturns : Finish(i, TRUE, invoke_js(ret), "none")

\* The first build of a fresh checkout (the sources are as old as each other
\* and no product exists yet), for one goal, with one job and not as a dry
\* run.
InitInvoke ==
    /\ Init
    /\ ~dry_run
    /\ jobs = 1
    /\ Len(goals) = 1
    /\ goals[1] # "all"
    /\ \A a \in Sources : time[a] = 1
    /\ \A a \in Products : time[a] = 0

\* One build, with every outcome an invocation can have.
NextInvoke ==
    \/ Process
    \/ \E i \in 1..Len(pending) : Invoke(i)
    \/ \E i \in 1..Len(pending) : Call(i)

SpecInvoke == InitInvoke /\ [][NextInvoke]_vars

(***************************************************************************)
(* Watch mode                                                              *)
(***************************************************************************)
\* The loop of watch_inputs is running: Main::run logs the error of the first
\* build and enters the loop; the loop calls build_rules(..).await? and is
\* left with the error of a re-build.
watching == builds = 1 \/ result = "ok"

\* The watcher reported the paths, Events::handle stamped them with
\* Time::now(), and watch_inputs called update_sources: join_all polls one
\* update_source per path.  The one that finds a source stops in update_time
\* at modified(..).await, inside the if-let whose scrutinee took the read
\* guard of the Actual table; every other one returns Ok(false).
\* The loop is alive after the first build, and after a re-build that
\* returned Ok (build_rules(..).await? leaves it otherwise).
update_sources(paths) ==
    /\ phase = "idle"
    /\ builds > 0
    /\ builds < MaxBuilds
    /\ watching
    /\ watch.batch = {}
    /\ watch.n < MaxBatches
    /\ paths # {}
    /\ watch' = [batch |-> paths,
                 n |-> watch.n + 1,
                 pc |-> [p \in WatchPaths |->
                            IF p \notin paths THEN "idle"
                            ELSE IF looked_up(p) THEN "stat" ELSE "done"],
                 ret |-> [p \in WatchPaths |->
                             IF p \in paths /\ ~looked_up(p) THEN "false" ELSE "none"],
                 applied |-> {p \in paths : looked_up(p)},
                 guards |-> Cardinality({p \in paths : looked_up(p)})]
    /\ now' = now + 1
    /\ UNCHANGED <<time, state, goals, jobs, dry_run, queue, unique, pending,
                   phase, result, builds, invoked, finished, failed, prev,
                   events, diagnostics, badexit, storevars, toolvars>>

\* Artifact::update_time resumes with the result st of modified(..): the
\* error is returned, or the time of the event is set when the file is
\* newer than the artifact; update_source returns and drops the read guard.
update_time(p, st) ==
    /\ p \in watch.batch
    /\ watch.pc[p] = "stat"
    /\ time' = IF st = "newer" THEN [time EXCEPT ![p] = now] ELSE time
    /\ watch' = [watch EXCEPT !.pc[p] = "done",
                              !.ret[p] = IF st = "err" THEN "err"
                                         ELSE IF st = "newer" THEN "true"
                                         ELSE "false",
                              !.guards = @ - 1]
    /\ UNCHANGED <<state, goals, jobs, dry_run, queue, unique, pending, phase,
                   result, now, builds, invoked, finished, failed, prev,
                   events, diagnostics, badexit, storevars, toolvars>>

\* join_all is complete: update_sources folds the results and watch_inputs
\* matches on the outcome: Ok(true) calls build_rules, an error is logged,
\* Ok(false) does nothing.
watch_inputs ==
    /\ watch.batch # {}
    /\ \A p \in watch.batch : watch.pc[p] = "done"
    /\ watch' = [NoWatch EXCEPT !.n = watch.n]
    /\ IF fold_results({watch.ret[p] : p \in watch.batch}) = "true"
       THEN process_from(time) /\ UNCHANGED now
       ELSE UNCHANGED <<time, state, goals, jobs, dry_run, queue, unique,
                        pending, phase, result, now, builds, invoked, finished,
                        failed, prev, events, diagnostics, badexit, storevars, toolvars>>

\* The first build of a fresh checkout in watch mode, for one goal and with
\* one job.
InitWatch ==
    /\ Init
    /\ ~dry_run
    /\ jobs = 1
    /\ Len(goals) = 1
    /\ \A a \in Sources : time[a] = 1
    /\ \A a \in Products : time[a] = 0

\* The program in watch mode: builds, and batches of touched paths.
NextWatch ==
    \/ Process
    \/ \E paths \in SUBSET WatchPaths : update_sources(paths)
    \/ \E p \in WatchPaths, st \in StatResults : update_time(p, st)
    \/ watch_inputs
    \/ \E i \in 1..Len(pending) : Succeed(i)
    \/ \E i \in 1..Len(pending) : Fail(i)

SpecWatch == InitWatch /\ [][NextWatch]_vars

schedvars == <<time, state, goals, jobs, dry_run, queue, unique, pending,
               phase, result, now, builds, invoked, finished, failed, prev,
               events, diagnostics, badexit, watch, toolvars>>

\* Artifact::new as a directory, a compile or link call or the script makes
\* it: the caller gets a handle of usage u or the error.
New(n, k, u) ==
    /\ CanIntern(n, k)
    /\ LET res == new(n, k, u)
       IN /\ last' = [ok |-> res.ok]
          /\ heap' = res.heap
          /\ actual' = res.actual
          /\ phony' = res.phony
          /\ held' = IF res.ok THEN held \cup {<<res.id, u>>} ELSE held
    /\ UNCHANGED <<scope_goals, rule_inputs, rule_outputs, rule_held, schedvars>>

\* Scope::new_goal: Artifact::new(..)? of an Output, Phony artifact, then the
\* insertion into the goal set of the scope.
new_goal(n) ==
    /\ CanIntern(n, "Phony")
    /\ LET res == new(n, "Phony", "Output")
       IN /\ last' = [ok |-> res.ok]
          /\ heap' = res.heap
          /\ actual' = res.actual
          /\ phony' = res.phony
          /\ held' = IF res.ok THEN held \cup {<<res.id, "Output">>} ELSE held
          /\ scope_goals' = IF res.ok THEN scope_goals \cup {res.id} ELSE scope_goals
    /\ UNCHANGED <<rule_inputs, rule_outputs, rule_held, schedvars>>

\* Artifact::into_usage / FromJs for Artifact<U>, applied to a clone of the
\* handle hd: a handle of usage u, or the error and the clone is dropped.
into_usage(hd, u) ==
    /\ hd \in held
    /\ LET ok == reusable(u, heap[hd[1]])
       IN /\ last' = [ok |-> ok]
          /\ held' = IF ok THEN held \cup {<<hd[1], u>>} ELSE held
    /\ UNCHANGED <<heap, actual, phony, scope_goals, rule_inputs, rule_outputs,
                   rule_held, schedvars>>

\* A caller drops a handle.
Drop(hd) ==
    /\ hd \in held
    /\ Settle(heap, held \ {hd}, scope_goals, rule_inputs, rule_held, rule_outputs)
    /\ last' = [ok |-> TRUE]
    /\ UNCHANGED schedvars

\* NoRule::new_raw / JsRule::new_raw, and the compile, link, strip and
\* linker-script constructors: a rule over Input handles ins and Output
\* handles outs the caller holds; set_rule on every output.  The caller
\* keeps the rule it gets back (keep) or drops it at once.
new_rule(ins, outs, keep) ==
    /\ \A a \in ins : <<a, "Input">> \in held
    /\ \A a \in outs : <<a, "Output">> \in held
    /\ \E r \in RuleIds :
          /\ r \notin LiveRules(heap) \cup rule_held
          /\ \A q \in RuleIds : q \notin LiveRules(heap) \cup rule_held => r <= q
          /\ Settle([a \in ObjIds |->
                        IF a \in outs THEN [heap[a] EXCEPT !.rule = r] ELSE heap[a]],
                    held, scope_goals, [rule_inputs EXCEPT ![r] = ins],
                    IF keep THEN rule_held \cup {r} ELSE rule_held,
                    [rule_outputs EXCEPT ![r] = outs])
    /\ last' = [ok |-> TRUE]
    /\ UNCHANGED schedvars

new_raw(ins, outs) == new_rule(ins, outs, FALSE)

\* The store before the script runs; the scheduler is idle.
InitStore ==
    /\ NoArtifacts
    /\ time = [a \in Arts |-> IF a \in Sources THEN 1 ELSE 0]
    /\ state = [r \in Rules |-> "Processed"]
    /\ goals = <<>>
    /\ jobs = 1
    /\ dry_run = FALSE
    /\ queue = <<>>
    /\ unique = {}
    /\ pending = <<>>
    /\ phase = "idle"
    /\ result = "none"
    /\ now = MaxTime
    /\ builds = 0
    /\ invoked = [r \in Rules |-> 0]
    /\ finished = {}
    /\ failed = {}
    /\ prev = [clean |-> FALSE]
    /\ events = <<>>
    /\ diagnostics = [r \in Rules |-> <<>>]
    /\ badexit = {}
    /\ watch = NoWatch
    /\ cfg = NoConfig
    /\ named = NoName
    /\ scope = NoScope
    /\ files = NoFiles

\* The calls a build script makes on the store while it is loaded.
NextStore ==
    \/ \E key \in Keys, u \in Usages : New(key[1], key[2], u)
    \/ \E key \in Keys : key[2] = "Phony" /\ new_goal(key[1])
    \/ \E hd \in held, u \in Usages : into_usage(hd, u)
    \/ \E hd \in held : Drop(hd)
    \/ \E ins \in SUBSET {a \in ObjIds : heap[a].name = "y"},
          out \in {a \in ObjIds : heap[a].name = "x"} : new_raw(ins, {out})

SpecStore == InitStore /\ [][NextStore]_vars

\* A caller drops the handle of a rule it kept.
drop_rule(r) ==
    /\ r \in rule_held
    /\ Settle(heap, held, scope_goals, rule_inputs, rule_held \ {r}, rule_outputs)
    /\ last' = [ok |-> TRUE]
    /\ UNCHANGED schedvars

\* ArtifactStore::remove_expired: both tables retain the entries that
\* still upgrade.
remove_expired ==
    /\ actual' = {a \in actual : heap[a].live}
    /\ phony' = {a \in phony : heap[a].live}
    /\ UNCHANGED <<heap, held, scope_goals, rule_inputs, rule_outputs, rule_held,
                   last, schedvars>>

\* Artifact::set_time through a handle, as Rule::process and update_time
\* call it.
set_time(hd, t) ==
    /\ hd \in held
    /\ heap' = [heap EXCEPT ![hd[1]].time = t]
    /\ UNCHANGED <<actual, phony, held, scope_goals, rule_inputs, rule_outputs,
                   rule_held, last, schedvars>>

\* The life of artifacts and rules: the file y is asked for as an input and
\* the file x as an output, rules make x from y, handles of artifacts and of
\* rules are taken and dropped, x is stamped, expired entries are removed.
NextLife ==
    \/ \E key \in Keys :
          /\ key[2] = "Actual"
          /\ New(key[1], key[2], IF key[1] = "y" THEN "Input" ELSE "Output")
    \/ \E hd \in held : Drop(hd)
    \/ \E ins \in SUBSET {a \in ObjIds : heap[a].name = "y"},
          out \in {a \in ObjIds : heap[a].name = "x"},
          keep \in BOOLEAN : new_rule(ins, {out}, keep)
    \/ \E r \in rule_held : drop_rule(r)
    \/ remove_expired
    \/ \E hd \in held : hd[2] = "Output" /\ set_time(hd, MaxTime)

SpecLife == InitStore /\ [][NextLife]_vars

\* A script that makes rules over any set of the outputs it holds, the empty
\* one among them: the outputs argument of the constructors is optional.
NextRules ==
    \/ \E key \in Keys :
          /\ key[2] = "Actual"
          /\ New(key[1], key[2], IF key[1] = "y" THEN "Input" ELSE "Output")
    \/ \E hd \in held : Drop(hd)
    \/ \E ins \in SUBSET {a \in ObjIds : heap[a].name = "y"},
          outs \in SUBSET {a \in ObjIds : heap[a].name = "x"},
          keep \in BOOLEAN : new_rule(ins, outs, keep)
    \/ \E r \in rule_held : drop_rule(r)

SpecRules == InitStore /\ [][NextRules]_vars

(***************************************************************************)
(* Compiler configurations derived while the script is loaded.             *)
(***************************************************************************)

\* The options a script hands to config with one option given.
SingleOpts == {[DefaultOpts EXCEPT ![k] = Given(OptType(k))] : k \in OptKeys}

\* Internal::config: the options of the configuration are cloned and
\* extended by the given ones; the props are shared.
config(new_opts) ==
    /\ cfg.n < MaxConfigs
    /\ cfg' = [opts |-> extend(cfg.opts, new_opts), parent |-> cfg.opts,
               new_opts |-> new_opts, n |-> cfg.n + 1]
    /\ UNCHANGED <<time, state, goals, jobs, dry_run, queue, unique, pending,
                   phase, result, now, builds, invoked, finished, failed, prev,
                   events, diagnostics, badexit, storevars, watch, named, scope, files>>

NextConfig == \E new_opts \in SingleOpts : config(new_opts)

SpecConfig == InitStore /\ [][NextConfig]_vars

(***************************************************************************)
(* The names of link outputs.                                              *)
(***************************************************************************)

\* A link or strip call names its output: file_name applied to the kind of
\* output, the platform of the toolchain and the base name.
name_output(self, platform, name) ==
    /\ named' = [called |-> TRUE, kind |-> self, platform |-> platform,
                 name |-> name, out |-> file_name(self, platform, name)]
    /\ UNCHANGED <<time, state, goals, jobs, dry_run, queue, unique, pending,
                   phase, result, now, builds, invoked, finished, failed, prev,
                   events, diagnostics, badexit, storevars, watch, cfg, scope, files>>

NextName ==
    \E self \in FileKind, platform \in PlatformKind : name_output(self, platform, "foo")

SpecName == InitStore /\ [][NextName]_vars

(***************************************************************************)
(* The scope while scripts are loaded and reloaded.                        *)
(***************************************************************************)

\* Scope::new_var: VariableStore::new_variable refuses a name the table
\* has, else makes the variable and enters it; then the insertion into the
\* variable set of the scope.
new_var(n) ==
    /\ scope.made < MaxCreated
    /\ LET tbl == upgradable(scope)
           v == <<n, scope.made + 1>>
       IN scope' = IF n \in names(tbl)
                   THEN [scope EXCEPT !.var_table = tbl, !.ret = <<>>]
                   ELSE [scope EXCEPT !.variables = insert(scope.variables, v),
                                      !.var_table = tbl \cup {v},
                                      !.made = scope.made + 1,
                                      !.ret = v]
    /\ UNCHANGED <<time, state, goals, jobs, dry_run, queue, unique, pending,
                   phase, result, now, builds, invoked, finished, failed, prev,
                   events, diagnostics, badexit, storevars, watch, cfg, named, files>>

\* Scope::new_scope: refused for a name the scope set has, else the new
\* scope is inserted.
new_scope(n) ==
    /\ scope.made < MaxCreated
    /\ LET sub == <<n, scope.made + 1>>
       IN scope' = IF n \in names(scope.scopes)
                   THEN [scope EXCEPT !.var_table = upgradable(scope), !.ret = <<>>]
                   ELSE [scope EXCEPT !.scopes = scope.scopes \cup {sub},
                                      !.var_table = upgradable(scope),
                                      !.made = scope.made + 1,
                                      !.ret = sub]
    /\ UNCHANGED <<time, state, goals, jobs, dry_run, queue, unique, pending,
                   phase, result, now, builds, invoked, finished, failed, prev,
                   events, diagnostics, badexit, storevars, watch, cfg, named, files>>

\* Scope::reset: Store::reset empties the variable table and both artifact
\* tables, then the scope set and the goal set are replaced by empty ones.
reset ==
    /\ scope' = [scope EXCEPT !.var_table = {}, !.scopes = {}, !.ret = <<>>]
    /\ LET h2 == release(heap, held, {}, rule_inputs, rule_held)
           alive == LiveRules(h2) \cup rule_held
       IN /\ heap' = h2
          /\ rule_inputs' = [r \in RuleIds |-> IF r \in alive THEN rule_inputs[r] ELSE {}]
          /\ rule_outputs' = [r \in RuleIds |->
                                 IF r \in alive THEN rule_outputs[r] \cap Live(h2) ELSE {}]
    /\ actual' = {}
    /\ phony' = {}
    /\ scope_goals' = {}
    /\ last' = [ok |-> TRUE]
    /\ UNCHANGED <<time, state, goals, jobs, dry_run, queue, unique, pending,
                   phase, result, now, builds, invoked, finished, failed, prev,
                   events, diagnostics, badexit, held, rule_held, watch, cfg, named, files>>

NextScope ==
    \/ \E n \in VarNames : new_var(n)
    \/ \E n \in ScopeNames : new_scope(n)
    \/ new_goal("x")
    \/ \E hd \in held : Drop(hd)
    \/ reset

SpecScope == InitStore /\ [][NextScope]_vars

(***************************************************************************)
(* The script takes inputs and outputs from a directory and makes the      *)
(* compile rule; the rules are invoked.                                    *)
(***************************************************************************)
\* Every variable but files.
nofiles == <<time, state, goals, jobs, dry_run, queue, unique, pending, phase,
             result, now, builds, invoked, finished, failed, prev, events,
             diagnostics, badexit, storevars, watch, cfg, named, scope>>

\* The lists a dependency file can carry, in the order the tool wrote them.
DepLists == SeqsUpTo(DepNames, MaxDeps) \ {<<>>}

\* The script calls Directory::input or Directory::output (usage u) for the
\* name n and keeps the artifact it gets.
directory(n, u) ==
    /\ LET r == new_init(files.tbl, files.fs, n, u)
           hs == IF r.ok THEN files.held \cup {n} ELSE files.held
       IN files' = [files EXCEPT
                       !.tbl = expire(r.tbl, strong(hs, files.cc, files.incs)),
                       !.held = hs,
                       !.ret = [op |-> IF u = "Input" THEN "input" ELSE "output",
                                name |-> n, ok |-> r.ok, wrote |-> FALSE]]
    /\ UNCHANGED nofiles

input(n) == directory(n, "Input")

output(n) == directory(n, "Output")

\* CompilerConfig::compile for the source a.c the script holds: the output
\* a.o is taken from the directory, a dependency file left by an earlier
\* run is loaded, and the rule is attached to the output.
compile ==
    /\ ~files.cc
    /\ "a.c" \in files.held
    /\ LET dst == new_init(files.tbl, files.fs, "a.o", "Output")
           deps == IF files.dep = "none"
                   THEN [ok |-> TRUE, tbl |-> dst.tbl, deps |-> {}]
                   ELSE read_deps(dst.tbl, files.fs, files.dep, "a.c")
           ok == dst.ok /\ deps.ok
           incs == IF ok THEN deps.deps ELSE {}
           hs == IF ok THEN files.held \cup {"a.o"} ELSE files.held
           t == IF ok THEN [deps.tbl EXCEPT !["a.o"].rule = 1]
                ELSE IF dst.ok THEN deps.tbl ELSE dst.tbl
       IN files' = [files EXCEPT
                       !.tbl = expire(t, strong(hs, ok, incs)),
                       !.held = hs,
                       !.cc = ok,
                       !.incs = incs,
                       !.ret = [op |-> "compile", name |-> "a.o", ok |-> ok,
                                wrote |-> FALSE]]
    /\ UNCHANGED nofiles

\* The script made a rule for the output g.h it holds, and the rule is
\* invoked with success: the callback writes the file, then Rule::process
\* stamps the output with Time::now(), late ticks of the clock after the
\* file was written.
generate(late) ==
    /\ files.clock + 1 + late <= MaxClock
    /\ "g.h" \in files.held
    /\ files.tbl["g.h"].type_ = "Product"
    /\ LET written == files.clock + 1
           T == written + late
       IN files' = [files EXCEPT
                       !.fs["g.h"] = [exists |-> TRUE, perm |-> "rw", mtime |-> written],
                       !.tbl["g.h"].rule = 2,
                       !.tbl["g.h"].time = T,
                       !.stamp["g.h"] = T,
                       !.clock = T,
                       !.ret = [op |-> "generate", name |-> "g.h", ok |-> TRUE,
                                wrote |-> FALSE]]
    /\ UNCHANGED nofiles

\* Rule::process of the compile rule.  The tool runs; when it succeeds
\* (tool_ok) it writes the output and a dependency file listing files it
\* read; CompileInternal::invoke then loads the dependency file that
\* exists, whoever wrote it, and replaces the headers unless that failed;
\* after a successful invocation the output is stamped with Time::now().
invoke(tool_ok, list, late) ==
    /\ files.cc
    /\ files.tbl["a.o"].known
    /\ files.clock + 1 + late <= MaxClock
    /\ \A k \in 1..Len(list) : access(files.fs[list[k]], "READ")
    /\ LET written == files.clock + 1
           fs1 == IF tool_ok
                  THEN [files.fs EXCEPT
                           !["a.o"] = [exists |-> TRUE, perm |-> "rw", mtime |-> written]]
                  ELSE files.fs
           dep1 == IF tool_ok THEN list ELSE files.dep
           deps == IF dep1 = "none"
                   THEN [ok |-> TRUE, tbl |-> files.tbl, deps |-> files.incs]
                   ELSE read_deps(files.tbl, fs1, dep1, "a.c")
           incs == IF deps.ok THEN deps.deps ELSE files.incs
           ok == deps.ok /\ tool_ok
           T == written + late
           t == IF ok THEN [deps.tbl EXCEPT !["a.o"].time = T] ELSE deps.tbl
       IN files' = [files EXCEPT
                       !.fs = fs1,
                       !.dep = dep1,
                       !.tbl = expire(t, strong(files.held, TRUE, incs)),
                       !.incs = incs,
                       !.stamp["a.o"] = IF ok THEN T ELSE @,
                       !.clock = T,
                       !.ret = [op |-> "invoke", name |-> "a.o", ok |-> ok,
                                wrote |-> tool_ok]]
    /\ UNCHANGED nofiles

\* What is on disk before the program starts: the source, maybe the header,
\* maybe an object file and a dependency file of an earlier run.
OnDisk ==
    {f \in [FileNames -> [exists : BOOLEAN, perm : {"none", "r", "rw"}, mtime : {0, 1}]] :
        /\ f["a.c"] = [exists |-> TRUE, perm |-> "rw", mtime |-> 1]
        /\ f["g.h"] = Absent
        /\ \A n \in FileNames : f[n].exists = (f[n].mtime = 1)
        /\ \A n \in FileNames : ~f[n].exists => f[n].perm = "none"}

InitFiles ==
    /\ NoArtifacts
    /\ time = [a \in Arts |-> IF a \in Sources THEN 1 ELSE 0]
    /\ state = [r \in Rules |-> "Processed"]
    /\ goals = <<>>
    /\ jobs = 1
    /\ dry_run = FALSE
    /\ queue = <<>>
    /\ unique = {}
    /\ pending = <<>>
    /\ phase = "idle"
    /\ result = "none"
    /\ now = MaxTime
    /\ builds = 0
    /\ invoked = [r \in Rules |-> 0]
    /\ finished = {}
    /\ failed = {}
    /\ prev = [clean |-> FALSE]
    /\ events = <<>>
    /\ diagnostics = [r \in Rules |-> <<>>]
    /\ badexit = {}
    /\ watch = NoWatch
    /\ cfg = NoConfig
    /\ named = NoName
    /\ scope = NoScope
    /\ \E f \in OnDisk, d \in {"none", <<"a.c", "a.h">>} :
          files = [NoFiles EXCEPT !.fs = f, !.dep = d]

NextFiles ==
    \/ \E n \in {"a.c", "a.h", "g.h"} : input(n)
    \/ \E n \in {"g.h", "a.h"} : output(n)
    \/ compile
    \/ \E late \in {0, 1} : generate(late)
    \/ \E tool_ok \in BOOLEAN, list \in DepLists, late \in {0, 1} :
          invoke(tool_ok, list, late)

SpecFiles == InitFiles /\ [][NextFiles]_vars

(***************************************************************************)
(* Properties                                                              *)
(***************************************************************************)
\* process has returned.
Returned == phase = "idle" /\ builds > 0

\* process has returned from a build that was not a dry run.
Built == Returned /\ ~dry_run

\* The walk of this build put rule r on the queue.
OnQueue(r) == r \in Range(queue) \cup Range(pending) \cup finished

\* The rules that produce an input of r.
Producers(r) == {rule(RuleInputs(r)[i]) : i \in 1..Len(RuleInputs(r))} \ {None}

RECURSIVE Upstream(_)
Upstream(r) == Producers(r) \cup UNION {Upstream(p) : p \in Producers(r)}

\* The rules that produce a direct or transitive input of r.
UpstreamOf == [r \in Rules |-> Upstream(r)]

Count(x, s) == Cardinality({i \in 1..Len(s) : s[i] = x})

\* The artifacts a walk from artifact a visits.
RECURSIVE Reach(_)
Reach(a) == {a} \cup UNION {Reach(inputs(a)[i]) : i \in 1..Len(inputs(a))}

GoalReach(gs) == UNION {Reach(a) : a \in {b \in PhonyStore : artifact_name(b) \in Range(gs)}}

\* Staleness as the specification defines it: some input is stale or newer.
RECURSIVE Stale(_, _)
Stale(a, t) ==
    \E i \in 1..Len(inputs(a)) : Stale(inputs(a)[i], t) \/ t[inputs(a)[i]] > t[a]

\* The rules whose outputs and transitive inputs are all Actual artifacts.
ActualRules ==
    {r \in Rules : \A o \in Range(RuleOutputs(r)) : Reach(o) \subseteq ActualStore}

\* The orders a goal list can be given in.
Perms(s) ==
    {q \in [1..Len(s) -> Range(s)] : \A x \in Range(s) : Count(x, q) = Count(x, s)}

\* C1: whenever a rule is being invoked, every rule scheduled in this build
\* that produces one of its inputs has already finished.
C1_InputsFinishedFirst ==
    \A i \in 1..Len(pending) :
        \A p \in Producers(pending[i]) : OnQueue(p) => p \in finished

\* C2: at every point of a build at most `jobs` rules are being invoked.
C2_AtMostJobsRunning ==
    /\ Len(pending) <= jobs
    /\ \A r \in Rules : Count(r, pending) <= 1

\* Both job slots are taken while a ready rule waits in the queue.
C2_Witness ==
    /\ jobs = 2
    /\ Len(pending) = jobs
    /\ \E i \in 1..Len(queue) : ready_inputs(queue[i], time)

\* C3: within one build a rule is queued at most once and invoked at most
\* once: it is never twice in the queue, never queued while or after it is
\* invoked, and its invocation starts at most once.
C3_AtMostOnce ==
    \A r \in Rules :
        /\ invoked[r] <= 1
        /\ Count(r, queue) + Count(r, pending) <= 1
        /\ r \in finished => r \notin Range(queue) \cup Range(pending)
        /\ invoked[r] = 0 <=> r \notin Range(pending) \cup finished

\* The link rule was scheduled through both of its outputs, each reached from
\* its own goal and through the goal all, and has been invoked.
C3_Witness ==
    /\ "all" \in Range(goals) /\ "map" \in Range(goals)
    /\ "link" \in finished
    /\ invoked["link"] = 1
    /\ "g_all" \in Range(queue)

\* C4: if jobs >= 1 and every invocation succeeded, process has returned Ok
\* with an empty queue and every scheduled rule invoked exactly once.
C4_AllSucceedBuildsAll ==
    (Built /\ jobs >= 1 /\ failed = {}) =>
        /\ result = "ok"
        /\ queue = <<>>
        /\ \A r \in Rules : OnQueue(r) => invoked[r] = 1

\* C5: no rule that takes an output of a failed rule as a direct or
\* transitive input is invoked in that build; those that were scheduled stay
\* in the queue and the build returns the error.
C5_NothingDownstreamOfFailure ==
    \A f \in failed :
        \A r \in Rules :
            f \in UpstreamOf[r] =>
                /\ invoked[r] = 0
                /\ (Returned /\ OnQueue(r)) =>
                        (r \in Range(queue) /\ result = "err")

\* C6: when a rule failed, every scheduled rule none of whose transitive
\* inputs is produced by a failed rule has still been invoked when the build
\* returns.
C6_UnaffectedRulesInvoked ==
    (Built /\ jobs >= 1 /\ failed # {}) =>
        \A r \in Rules :
            (OnQueue(r) /\ UpstreamOf[r] \cap failed = {}) => invoked[r] >= 1

\* C7: process returns Ok only if the queue drained and no invoked rule
\* failed.
C7_OkMeansNoFailure ==
    (Built /\ result = "ok") => (queue = <<>> /\ failed = {})

\* C8: the walk schedules a rule of the Actual graph exactly when one of
\* the artifacts it produces is reachable from a requested goal and stale.
C8_WalkSchedulesStale ==
    [][(builds = 0 /\ builds' = 1) =>
        \A r \in ActualRules :
            id(r) \in unique' <=>
                \E o \in Range(RuleProducts(r)) :
                    o \in GoalReach(goals) /\ Stale(o, time)]_vars

\* The walk has skipped the compile rule, whose output is as new as its
\* source, and has scheduled the link rule.
C8_Witness ==
    /\ builds = 1
    /\ finished = {}
    /\ time["a.o"] >= time["a.c"]
    /\ id("cc_a") \notin unique
    /\ id("link") \in unique

\* The rules with Actual outputs only whose direct and transitive inputs are
\* sources or Actual outputs of rules with a single output.
SettledRules ==
    {r \in ActualRules :
        \A p \in UpstreamOf[r] : p \in ActualRules /\ Len(RuleProducts(p)) = 1}

\* The build before this one was a real build that returned Ok without a
\* failed rule.
AfterCleanBuild == builds > 1 /\ prev.clean

C10_GoalOrderIrrelevant ==
    [][(builds = 0 /\ builds' = 1) =>
        \A p \in Perms(goals) : Walk(p, time).unique = unique']_vars

\* The walk ran over two goals whose order decides the order of the queue.
C10_Witness ==
    /\ builds = 1
    /\ finished = {}
    /\ Len(goals) = 2
    /\ unique # {}
    /\ Walk(<<goals[2], goals[1]>>, time).queue # Walk(goals, time).queue

\* What invoke can return to Rule::process, whatever the kind of the rule.
Invocations ==
    {invoke_tool(run) : run \in ToolRuns} \cup {invoke_js(ret) : ret \in JsReturns}

ExitStatuses == {"none", "0", "nonzero", "killed"}

\* The states the events of this build report for rule r, in order.
RuleEvents(r) ==
    LET OfRule(e) == e[1] = r
        es == SelectSeq(events, OfRule)
    IN [k \in 1..Len(es) |-> es[k][2]]

\* C14: when an invocation succeeds every output of the rule gets one and
\* the same new timestamp and nothing else is stamped; when it fails (mkdir
\* error, invocation error or failed diagnostics) no timestamp changes.
C14_StampAllOrNothing ==
    [][\A r \in finished' \ finished :
          IF r \in failed'
          THEN time' = time
          ELSE /\ \A o \in Range(RuleOutputs(r)) : time'[o] = now'
               /\ \A a \in Arts : time[a] < now'
               /\ \A a \in Arts \ Range(RuleOutputs(r)) : time'[a] = time[a]]_vars

\* The callback rule with two outputs succeeded and stamped both alike.
C14_Witness ==
    /\ "g_gen" \in finished \ failed
    /\ time["gen"] = time["gen2"]
    /\ time["gen"] > MaxTime

\* C15: a compile or link rule whose tool exited with a non-zero status or
\* was killed is a failed rule, whatever the tool wrote to stderr: its
\* outputs are not stamped, no rule that takes one of its outputs is started
\* and the build returns "cannot be built".
C15_ToolFailureFailsRule ==
    \A r \in badexit :
        /\ r \in failed
        /\ \A o \in Range(RuleOutputs(r)) : time[o] <= MaxTime
        /\ \A x \in Rules : r \in Producers(x) => invoked[x] = 0
        /\ Returned => result = "err"

C17_ProcessedAfterInvocation ==
    /\ \A r \in finished : state[r] = "Processed"
    /\ Returned => \A r \in Rules : state[r] # "Processing"

\* C18: every rule invoked in this build has got one Scheduled, one
\* Processing and (once its invocation ended, failed or not) one Processed
\* event, in that order; a rule that was not invoked has got neither a
\* Processing nor a Processed event.
C18_EventsPerInvokedRule ==
    \A r \in Rules :
        IF invoked[r] >= 1
        THEN RuleEvents(r) = IF r \in finished
                             THEN <<"Scheduled", "Processing", "Processed">>
                             ELSE <<"Scheduled", "Processing">>
        ELSE Range(RuleEvents(r)) \subseteq {"Scheduled"}

\* The link rule failed and its three events were emitted, while another
\* scheduled rule has only its Scheduled event.
C18_Witness ==
    /\ "link" \in failed
    /\ RuleEvents("link") = <<"Scheduled", "Processing", "Processed">>
    /\ \E r \in Rules : RuleEvents(r) = <<"Scheduled">>

\* C19: in every build each rule the walk scheduled is marked Scheduled until
\* it is invoked and has exactly one Scheduled event, emitted before every
\* Processing event of the build; no other rule has a Scheduled event.
C19_ScheduledEventPerRule ==
    builds > 0 =>
        \A r \in Rules :
            IF OnQueue(r)
            THEN /\ invoked[r] = 0 => state[r] = "Scheduled"
                 /\ Count(<<r, "Scheduled">>, events) = 1
                 /\ \A j, k \in 1..Len(events) :
                       (events[j] = <<r, "Scheduled">> /\ events[k][2] = "Processing")
                           => j < k
            ELSE Count(<<r, "Scheduled">>, events) = 0

\* C20: a dry-run build stops after the walk: process has returned Ok, no
\* rule is or was invoked, no Processing or Processed event was emitted, and
\* no step of the run changes a timestamp.
C20_DryRunStopsAfterWalk ==
    /\ [](dry_run /\ builds > 0 =>
            /\ phase = "idle"
            /\ result = "ok"
            /\ pending = <<>>
            /\ \A r \in Rules : invoked[r] = 0
            /\ \A k \in 1..Len(events) : events[k][2] \notin {"Processing", "Processed"})
    /\ [][dry_run => time' = time]_vars

\* A dry run with a free job slot has returned while a ready rule is still
\* in the queue.
C20_Witness ==
    /\ dry_run
    /\ builds = 1
    /\ jobs >= 1
    /\ \E i \in 1..Len(queue) : ready_inputs(queue[i], time)

\* The store the artifacts of kind k are registered in.
StoreOf(k) == IF k = "Actual" THEN actual ELSE phony

\* The heap but for slot a is as it was.
OthersKept(a) == \A b \in ObjIds \ {a} : heap'[b] = heap[b]

\* C11: each (name, kind) pair identifies at most one living artifact and the
\* stores hold exactly the living artifacts of their kind; Artifact::new for a
\* name whose artifact of that kind is alive hands out that very artifact,
\* with its time and rule as they were, and creates nothing; for a name that
\* has no living artifact of that kind it hands out an artifact that is none
\* of the living ones.
C11_OnePerNameAndKind ==
    /\ [](/\ \A a \in Live(heap), b \in Live(heap) :
               (heap[a].name = heap[b].name /\ heap[a].kind = heap[b].kind) => a = b
          /\ actual = {a \in Live(heap) : heap[a].kind = "Actual"}
          /\ phony = {a \in Live(heap) : heap[a].kind = "Phony"})
    /\ [][\A key \in Keys, u \in Usages :
            New(key[1], key[2], u) =>
               LET old == {a \in Live(heap) : heap[a].name = key[1] /\ heap[a].kind = key[2]}
               IN IF old # {}
                  THEN /\ heap' = heap
                       /\ actual' = actual
                       /\ phony' = phony
                       /\ last'.ok => \E a \in old : held' = held \cup {<<a, u>>}
                  ELSE \E a \in ObjIds \ Live(heap) :
                          /\ Live(heap') = Live(heap) \cup {a}
                          /\ heap'[a].name = key[1]
                          /\ heap'[a].kind = key[2]
                          /\ OthersKept(a)
                          /\ held' = held \cup {<<a, u>>}]_vars

\* An artifact that has a rule was asked for again and is held under both
\* usages, while another living artifact has its name in the other kind.
C11_Witness ==
    \E a \in Live(heap), b \in Live(heap) :
       /\ a # b
       /\ heap[a].name = heap[b].name
       /\ heap[a].rule # 0
       /\ <<a, "Input">> \in held
       /\ <<a, "Output">> \in held

\* What a request for the living artifact e under usage u has to do.
ReuseAnswer(e, u) ==
    /\ u = "Input" => last'.ok
    /\ u = "Output" => (last'.ok <=> (heap[e].type_ # "Source" /\ heap[e].rule = 0))
    /\ ~last'.ok => UNCHANGED <<heap, actual, phony, held, scope_goals, rule_inputs>>

\* C12: a request for an existing artifact as Input succeeds; as Output it
\* succeeds exactly if the artifact was not created as a source and has no
\* rule; the refused request (Artifact::new, into_usage, new_goal) leaves the
\* stores, the artifacts, the handles and the goal set of the scope as they
\* were.
C12_ReuseRules ==
    [][/\ \A key \in Keys, u \in Usages :
            (New(key[1], key[2], u) /\ get(StoreOf(key[2]), heap, key[1]) # 0)
               => ReuseAnswer(get(StoreOf(key[2]), heap, key[1]), u)
       /\ \A key \in Keys :
            (key[2] = "Phony" /\ new_goal(key[1]) /\ get(phony, heap, key[1]) # 0)
               => ReuseAnswer(get(phony, heap, key[1]), "Output")
       /\ \A hd \in held, u \in Usages :
            into_usage(hd, u) => ReuseAnswer(hd[1], u)]_vars

\* A goal of the scope that has a rule was asked for as Output again and the
\* request was refused, while a source file is held as well.
C12_Witness ==
    /\ ~last.ok
    /\ \E g \in scope_goals : heap[g].rule # 0 /\ <<g, "Output">> \in held
    /\ \E a \in Live(heap) : heap[a].type_ = "Source" /\ <<a, "Input">> \in held

\* C13: the rule of a living artifact, once set, is the rule it has after
\* every later step.
C13_RuleNeverReplaced ==
    [][\A a \in ObjIds :
          (heap[a].live /\ heap[a].rule # 0 /\ heap'[a].live)
             => heap'[a].rule = heap[a].rule]_vars

\* The step in which watch_inputs is done with a batch.
BatchDone == watch.batch # {} /\ watch'.batch = {}

\* C21: for every batch update_time is applied exactly to the paths that
\* name a source in the Actual store, and when the batch updated the time of
\* at least one source the scheduler is re-entered with the same goals, also
\* when another path of the batch could not be stat'ed.
C21_BatchUpdatesAndRebuilds ==
    [][BatchDone =>
          /\ watch.applied = {p \in watch.batch : p \in ActualStore /\ type_(p) = "Source"}
          /\ (\E p \in watch.batch : watch.ret[p] = "true") =>
                /\ builds' = builds + 1
                /\ goals' = goals
                /\ unique' = Walk(goals, time).unique]_vars

\* C24: whenever a store operation is suspended at an await no read or
\* write guard on a store table is held.
C24_NoGuardAcrossAwait ==
    (\E p \in WatchPaths : watch.pc[p] = "stat") => watch.guards = 0

\* C22: outdated() is true exactly for an artifact that has a rule and is
\* phony or has an input that is outdated or newer than it; so a phony
\* artifact with a rule is always outdated and a source never is.
C22_OutdatedIff ==
    \A a \in Arts :
        outdated(a, time) <=>
            /\ has_rule(a)
            /\ \/ is_phony(a)
               \/ \E i \in 1..Len(inputs(a)) :
                     outdated(inputs(a)[i], time) \/ time[inputs(a)[i]] > time[a]

\* C23: in every reachable state is_source() holds for an artifact exactly
\* when the artifact has no rule.
C23_SourceIffNoRule ==
    \A a \in Live(heap) : source_slot(heap[a]) <=> heap[a].rule = 0

\* The artifacts a strong reference leads to in this state.
StronglyHeld == Referenced(heap, held, scope_goals, rule_inputs, rule_held)

\* C25: the store keeps no artifact alive: every living artifact is held by
\* a handle, the scope or the input set of a living rule, a lookup by name
\* finds only such an artifact, the tables hold no entry of a dropped one
\* (also after remove_expired), and Artifact::new for a name whose artifact
\* was dropped creates a fresh artifact with the epoch as time and no rule.
C25_StoreHoldsWeakly ==
    /\ [](/\ Live(heap) \subseteq StronglyHeld
          /\ actual \cup phony \subseteq Live(heap)
          /\ \A key \in Keys :
                get(StoreOf(key[2]), heap, key[1]) \in StronglyHeld \cup {0})
    /\ [][\A key \in Keys, u \in Usages :
            (New(key[1], key[2], u) /\ get(StoreOf(key[2]), heap, key[1]) = 0) =>
                \E a \in ObjIds \ Live(heap) :
                   /\ <<a, u>> \in held'
                   /\ heap'[a] = [live |-> TRUE, name |-> key[1], kind |-> key[2],
                                  type_ |-> usage_type(u), time |-> 0, rule |-> 0]]_vars

\* A caller still holds a rule whose output was dropped, and the file x was
\* asked for again: it is a new artifact without time and rule, while the
\* rule keeps its input alive.
C25_Witness ==
    \E r \in rule_held :
       /\ rule_outputs[r] = {}
       /\ rule_inputs[r] # {}
       /\ \E a \in Live(heap) :
             /\ heap[a].name = "x"
             /\ heap[a].time = 0
             /\ heap[a].rule = 0
             /\ <<a, "Output">> \in held

\* The rules that live in this state, and in the next one.
AliveRules == LiveRules(heap) \cup rule_held

AliveRulesNext == LiveRules(heap') \cup rule_held'

\* C26: while an output of a rule is alive the rule and all of its inputs
\* stay alive; a rule that is held does not keep its outputs alive, and its
\* output set then omits the dropped ones.
C26_RuleHoldsInputsNotOutputs ==
    /\ [][\A r \in AliveRules : \A a \in rule_outputs[r] :
              heap'[a].live =>
                 /\ r \in AliveRulesNext
                 /\ rule_inputs'[r] \subseteq Live(heap')]_vars
    /\ [](\A r \in rule_held :
              /\ rule_outputs[r] \subseteq Live(heap)
              /\ \A a \in rule_outputs[r] : a \in StronglyHeld)

\* The options in which two ToolchainOpts differ.
Differ(a, b) == {k \in OptKeys : a[k] # b[k]}

\* C27: two ToolchainOpts of the program that differ in exactly one option,
\* whichever field of base, cc, c, cxx, d, link, dump or strip it is, have
\* different hashes, and equal ones have equal hashes.
C27_OptionChangesHash ==
    \A a, b \in {cfg.opts, cfg.parent, cfg.new_opts} :
       /\ Cardinality(Differ(a, b)) = 1 => hash(a) # hash(b)
       /\ a = b => hash(a) = hash(b)

\* The name ends with the formatted version v.
HasVersionSuffix(out, v) ==
    /\ v # <<>>
    /\ Len(out) > 6
    /\ SubSeq(out, Len(out) - 5, Len(out)) = <<".">> \o fmt_version(v)

\* C28: the library foo of version 1.2.3 built as Dynamic with library set
\* is named libfoo.so.1.2.3 on Unix, libfoo.dylib.1.2.3 on Darwin and
\* foo.dll on Windows; a version suffix is appended only on Unix, None and
\* Darwin, never on Windows.
C28_FileNames ==
    named.called =>
       /\ (/\ named.kind = [type |-> "Dynamic", library |-> TRUE,
                            version |-> <<1, 2, 3>>]
           /\ named.name = "foo") =>
              /\ named.platform = "Unix" =>
                    named.out = <<"lib", "foo", ".so", ".", "1", ".", "2", ".", "3">>
              /\ named.platform = "Darwin" =>
                    named.out = <<"lib", "foo", ".dylib", ".", "1", ".", "2", ".", "3">>
              /\ named.platform = "Windows" => named.out = <<"foo", ".dll">>
       /\ (\E v \in Versions : HasVersionSuffix(named.out, v)) =>
              named.platform \in {"Unix", "None", "Darwin"}

\* The phony artifacts a goal list names.
Roots(gs) == {a \in PhonyStore : \E i \in 1..Len(gs) : gs[i] = artifact_name(a)}

\* C29: the walk starts only from the phony artifacts whose name is one of
\* the goals: every rule scheduled makes an artifact such a root reaches,
\* and when no goal names a phony artifact (the goal list is empty, or names
\* a file or nothing) no rule is scheduled or invoked and process returns Ok.
C29_OnlyNamedPhonyRoots ==
    builds > 0 =>
       /\ \A r \in Range(queue) \cup Range(pending) \cup finished :
             \E o \in Range(RuleOutputs(r)) : \E a \in Roots(goals) : o \in Reach(a)
       /\ Roots(goals) = {} =>
             /\ unique = {}
             /\ queue = <<>>
             /\ pending = <<>>
             /\ \A r \in Rules : invoked[r] = 0 /\ state[r] = "Processed"
             /\ result = "ok"

\* A build was asked for the file app, which is older than its inputs, and
\* for a name nothing has: it returned Ok without a rule.
C29_Witness ==
    /\ builds = 1
    /\ goals = <<"app", "nope">>
    /\ time["a.o"] > time["app"]
    /\ ~dry_run
    /\ result = "ok"
    /\ unique = {}

\* C30: Scope::reset leaves the scope without sub-scopes, goals and
\* variables and the stores empty, and whenever a variable, a goal or a
\* sub-scope is defined afterwards, also under a name used before, the
\* scope has the newly created object under that name.
C30_ResetWipesScope ==
    [][/\ reset =>
             /\ scope'.scopes = {}
             /\ scope_goals' = {}
             /\ scope'.variables = {}
             /\ scope'.var_table = {}
             /\ actual' = {}
             /\ phony' = {}
       /\ \A n \in VarNames :
             (new_var(n) /\ scope'.ret # <<>>) =>
                lookup(scope'.variables, n) = scope'.ret
       /\ \A n \in ScopeNames :
             (new_scope(n) /\ scope'.ret # <<>>) =>
                lookup(scope'.scopes, n) = scope'.ret
       /\ (new_goal("x") /\ last'.ok /\ get(phony, heap, "x") = 0) =>
             \E a \in scope_goals' \ Live(heap) : heap'[a].name = "x"]_vars

\* C31: the binary and the map file both carry the link rule, the link rule
\* reports both as its outputs, and the step in which the link succeeds
\* gives both the same new timestamp, so that the rule taking the map file
\* as input is ready afterwards.
C31_LinkStampsBinaryAndMap ==
    [][/\ rule("app") = "link" /\ rule("app.map") = "link"
       /\ Range(RuleOutputs("link")) = {"app", "app.map"}
       /\ ("link" \in finished' \ (finished \cup failed')) =>
             /\ time'["app"] = now'
             /\ time'["app.map"] = now'
             /\ ready_inputs("g_map", time')]_vars

\* C32: after the initial fill and after every top-up pass either `jobs`
\* rules are being invoked or no rule waiting in the queue is ready; a pass
\* neither drops nor duplicates a rule, and it rotates at most as many
\* times as the queue was long when the pass began.
C32_WorkConserving ==
    [][/\ (~dry_run /\ builds' > 0) =>
             \/ Len(pending') = jobs
             \/ \A k \in 1..Len(queue') : ~ready_inputs(queue'[k], time')
       /\ (~dry_run /\ builds' # builds) =>
             LET w == Walk(goals, time).queue
             IN /\ \A r \in Rules :
                      Count(r, w) = Count(r, queue') + Count(r, pending')
                /\ pick_first(w, 0, time).out <= Len(w)
       /\ \A i \in 1..Len(pending) :
             pending[i] \in finished' \ finished =>
                /\ \A r \in Rules :
                      Count(r, queue) + Count(r, swap_remove(pending, i))
                         = Count(r, queue') + Count(r, pending')
                /\ top_up(queue, swap_remove(pending, i), 0, jobs, time').out
                      <= Len(queue)]_vars

\* The top-up after the link rotated g_map, which is not ready, started
\* g_build behind it and left the second job slot empty.
C32_Witness ==
    /\ goals = <<"map", "build">>
    /\ jobs = 2
    /\ "link" \in finished
    /\ pending = <<"g_build">>
    /\ queue = <<"g_map">>
    /\ ~ready_inputs("g_map", time)

\* The rules in the order in which the walk scheduled them, read from the
\* events ev of the build.
Discovered(ev) ==
    LET Scheduled(e) == e[2] = "Scheduled"
        es == SelectSeq(ev, Scheduled)
    IN [k \in 1..Len(es) |-> es[k][1]]

\* The place of rule r in the order of discovery.
Pos(r, ev) == CHOOSE k \in 1..Len(Discovered(ev)) : Discovered(ev)[k] = r

\* C33: whenever the scheduler starts a rule, no rule that the walk
\* discovered earlier is waiting in the queue and ready at that moment:
\* no such rule is left in the queue by the pass, and none is started
\* later in the same pass.
C33_ReadyRulesFifo ==
    [][\A k \in 1..Len(pending') :
          pending'[k] \notin Range(pending) =>
             /\ \A m \in 1..Len(queue') :
                   ready_inputs(queue'[m], time') =>
                      Pos(pending'[k], events') < Pos(queue'[m], events')
             /\ \A m \in (k + 1)..Len(pending') :
                   pending'[m] \notin Range(pending) =>
                      Pos(pending'[k], events') < Pos(pending'[m], events')]_vars

\* The step is an invocation of the compile rule.
Invocation == files'.ret.op = "invoke" /\ files'.clock > files.clock

C39_StampNeverLowered ==
    [][\A n \in FileNames :
          (files.stamp[n] > 0 /\ files.tbl[n].known /\ files'.tbl[n].known) =>
             /\ files'.tbl[n].time >= files.stamp[n]
             /\ (Invocation /\ n # "a.o") => files'.tbl[n].time = files.tbl[n].time]_vars

\* C36: no rule has an empty output set: a constructor called without
\* outputs yields no rule.
C36_NoRuleWithoutOutputs ==
    [][\A r \in rule_held' \ rule_held : rule_outputs'[r] # {}]_vars

\* C37: in watch mode a build that returned an error, the first one or a
\* re-build, leaves the watch loop running, so that later batches of touched
\* paths are taken up.
C37_FailedBuildKeepsWatching == (Returned /\ result = "err") => watching

\* The artifacts with a rule that a walk from the goals flags: the phony
\* ones and the stale ones.
Flagged(gs, t) ==
    {a \in GoalReach(gs) : has_rule(a) /\ (is_phony(a) \/ Stale(a, t))}

\* C38: the rules a walk meets have distinct ids, and the rule of every
\* artifact the walk finds stale (or phony) is on the queue it leaves, also
\* when a goal has the name of an output file.
C38_NoRuleDroppedById ==
    [][builds' # builds =>
          \A a \in Flagged(goals, time) :
             /\ rule(a) \in Range(queue') \cup Range(pending')
             /\ \A b \in Flagged(goals, time) :
                   rule(a) # rule(b) => id(rule(a)) # id(rule(b))]_vars

\* C40: the queue the walk leaves is in dependency order: every rule on it
\* comes after every rule on it that produces one of its inputs.
C40_QueueInDependencyOrder ==
    [][builds' # builds =>
          LET W == Walk(goals, time).queue
          IN /\ dry_run => queue' = W
             /\ \A k \in 1..Len(W) :
                   \A p \in Producers(W[k]) :
                      p \in Range(W) => \E m \in 1..(k - 1) : W[m] = p]_vars

====
